---- MODULE Spec2Model ----
(***************************************************************************)
(* The Tree Graph Store of rootconnect (src/src/state/treeReducer.ts): a   *)
(* reducer over a genealogical graph.  A graph is a root pointer and an    *)
(* insertion-ordered mapping from person id to Person.  The mapping is     *)
(* modelled as the sequence of its values in Object.entries order; the key *)
(* of an entry is the id field of the person stored there.                 *)
(*                                                                         *)
(* Strings that the code inspects character by character (the two date     *)
(* fields, which are trimmed) are sequences of one-character strings.      *)
(* Identifiers are opaque non-empty strings (crypto.randomUUID in the      *)
(* application), never integer-like, so the mapping keeps insertion order. *)
(***************************************************************************)
EXTENDS Integers, Sequences, FiniteSets, TLC

VARIABLES tree, prev, action, steps, dangling, result, unionLog, hook, app

\* hook is the state of one useDebouncedCallback: the ref, the timers of the
\* window that are pending, the clock, what was called and what ran.  app is
\* the state of App next to the reducer: the stored trees, the active id, the
\* updaters that setTrees has queued, and the stored tree that the graph of
\* the reducer was taken from.
vars == <<tree, prev, action, steps, dangling, result, unionLog, hook, app>>

-----------------------------------------------------------------------------
(* Bounds of the model.                                                    *)

MaxCalls == 3

MaxDrawSteps == 4

MaxSteps == 2

MaxTime == 5

MaxTreeSteps == 4

MaxParentIds == 2

MaxStoreSteps == 2

\* dispatches from the empty graph when partnerships are made and unmade
MaxUnionSteps == 5

\* the longest parents, children or spouses list of a person that is sanitized
MaxListLen == 3

-----------------------------------------------------------------------------
(* Value domains.                                                          *)

PersonIds == {"a", "b", "c"}

UnionIds == {"u1", "u2"}

\* the null of `rootPersonId: string | null`
NoId == "null"

\* the null of `birthDate: string | null` (a date string is a sequence of
\* characters, so null is a sequence that is no string of characters)
Null == <<"null">>

MarriageDates == {Null, <<"x">>}

\* whitespace as String.prototype.trim sees it
IsSpace(ch) == ch = " "

-----------------------------------------------------------------------------
(* Sequence helpers standing for the JavaScript built-ins the code uses.   *)
(* Array.prototype.filter is SelectSeq.                                    *)

Range(s) == {s[i] : i \in 1..Len(s)}

\* all sequences over S of length at most n
RECURSIVE SeqsUpTo(_, _)
SeqsUpTo(S, n) ==
    IF n = 0 THEN {<<>>}
    ELSE LET shorter == SeqsUpTo(S, n - 1)
         IN  shorter \cup {Append(s, x) : s \in shorter, x \in S}

\* String.prototype.trim on a sequence of characters
RECURSIVE TrimStart(_)
TrimStart(s) ==
    IF s # <<>> /\ IsSpace(Head(s)) THEN TrimStart(Tail(s)) ELSE s

RECURSIVE TrimEnd(_)
TrimEnd(s) ==
    IF s # <<>> /\ IsSpace(s[Len(s)]) THEN TrimEnd(SubSeq(s, 1, Len(s) - 1)) ELSE s

Trim(s) == TrimEnd(TrimStart(s))

-----------------------------------------------------------------------------
(* The people mapping.                                                     *)

Keys(people) == {people[i].id : i \in 1..Len(people)}

IndexOf(people, id) == CHOOSE i \in 1..Len(people) : people[i].id = id

\* state.people[id] for an id that is a key
Lookup(people, id) == people[IndexOf(people, id)]

\* { ...people, [person.id]: person }: an existing key keeps its position,
\* a new key goes last
Put(people, person) ==
    IF person.id \in Keys(people)
    THEN [people EXCEPT ![IndexOf(people, person.id)] = person]
    ELSE Append(people, person)

EMPTY_TREE == [rootPersonId |-> NoId, people |-> <<>>]

\* every id a person record refers to
Refs(person) ==
    Range(person.parents) \cup Range(person.children)
    \cup {person.spouses[i].spouseId : i \in 1..Len(person.spouses)}

-----------------------------------------------------------------------------
(* treeReducer.ts                                                          *)

\* mutant: the array is returned as it came
ensureUnique_AsGiven(items) == items

\* Array.from(new Set(items)): first occurrence of each item, in order
RECURSIVE ensureUnique(_)
ensureUnique(items) ==
    IF items = <<>> THEN <<>>
    ELSE LET init == ensureUnique(SubSeq(items, 1, Len(items) - 1))
             last == items[Len(items)]
         IN  IF last \in Range(init) THEN init ELSE Append(init, last)

\* mutant: the entry is appended even when the union identifier is there
ensurePartnershipUnique_Append(spouses, partnership) == Append(spouses, partnership)

ensurePartnershipUnique(spouses, partnership) ==
    LET hits == {i \in 1..Len(spouses) : spouses[i].unionId = partnership.unionId}
    IN  IF hits # {}
        THEN LET existingIndex == CHOOSE i \in hits : \A j \in hits : i <= j
             IN  [spouses EXCEPT ![existingIndex] = partnership]
        ELSE Append(spouses, partnership)

\* mutant: an entry whose unionId is already in the map is dropped
RECURSIVE dedupePartnerships_KeepFirst(_)
dedupePartnerships_KeepFirst(spouses) ==
    IF spouses = <<>> THEN <<>>
    ELSE LET init == dedupePartnerships_KeepFirst(SubSeq(spouses, 1, Len(spouses) - 1))
             entry == spouses[Len(spouses)]
         IN  IF \E i \in 1..Len(init) : init[i].unionId = entry.unionId
             THEN init
             ELSE Append(init, entry)

\* a Map keyed by unionId: a key keeps the position of its first set, and
\* holds the value of its last set
RECURSIVE dedupePartnerships(_)
dedupePartnerships(spouses) ==
    IF spouses = <<>> THEN <<>>
    ELSE LET init == dedupePartnerships(SubSeq(spouses, 1, Len(spouses) - 1))
             entry == spouses[Len(spouses)]
             hits == {i \in 1..Len(init) : init[i].unionId = entry.unionId}
         IN  IF hits # {}
             THEN [init EXCEPT ![CHOOSE i \in hits : TRUE] = entry]
             ELSE Append(init, entry)

normalizeDateValue(value) ==
    IF value = Null \/ value = <<>> THEN Null
    ELSE LET trimmed == Trim(value)
         IN  IF Len(trimmed) = 0 THEN Null ELSE trimmed

sanitizePerson(person) ==
    [person EXCEPT !.birthDate = normalizeDateValue(person.birthDate),
                   !.deathDate = normalizeDateValue(person.deathDate),
                   !.parents = ensureUnique(person.parents),
                   !.children = ensureUnique(person.children),
                   !.spouses = dedupePartnerships(person.spouses)]

\* mutant: the last remaining entry is promoted
FirstKeyOrNull_Last(entries) == IF Len(entries) > 0 THEN entries[Len(entries)].id ELSE NoId

\* remainingEntries.length > 0 ? remainingEntries[0][0] : null
FirstKeyOrNull(entries) == IF Len(entries) > 0 THEN entries[1].id ELSE NoId

\* mutant: the Partnerships with the removed person are kept
stripPerson_KeepSpouses(person, personId) ==
    sanitizePerson(
        [person EXCEPT
            !.parents = SelectSeq(person.parents, LAMBDA parentId : parentId # personId),
            !.children = SelectSeq(person.children, LAMBDA childId : childId # personId)])

\* the body of deletePerson's loop over the remaining entries
stripPerson(person, personId) ==
    sanitizePerson(
        [person EXCEPT
            !.parents = SelectSeq(person.parents, LAMBDA parentId : parentId # personId),
            !.children = SelectSeq(person.children, LAMBDA childId : childId # personId),
            !.spouses = SelectSeq(person.spouses, LAMBDA spouse : spouse.spouseId # personId)])

\* mutant: the root is kept whoever is deleted
removePerson_KeepRoot(state, personId) ==
    LET remainingEntries == SelectSeq(state.people, LAMBDA p : p.id # personId)
        updatedPeople ==
            [i \in 1..Len(remainingEntries) |-> stripPerson(remainingEntries[i], personId)]
        nextRoot ==
            IF state.rootPersonId # NoId THEN state.rootPersonId
            ELSE FirstKeyOrNull(remainingEntries)
    IN  [rootPersonId |-> nextRoot, people |-> updatedPeople]

\* deletePerson once personId is known to be a key
removePerson(state, personId) ==
    LET remainingEntries == SelectSeq(state.people, LAMBDA p : p.id # personId)
        updatedPeople ==
            [i \in 1..Len(remainingEntries) |-> stripPerson(remainingEntries[i], personId)]
        nextRoot ==
            IF state.rootPersonId # NoId /\ state.rootPersonId = personId
            THEN FirstKeyOrNull(remainingEntries)
            ELSE IF state.rootPersonId # NoId THEN state.rootPersonId
                 ELSE FirstKeyOrNull(remainingEntries)
    IN  [rootPersonId |-> nextRoot, people |-> updatedPeople]

\* mutant: no early return for a person that is not in the graph
deletePerson_NoGuard(state, personId) == removePerson(state, personId)

deletePerson(state, personId) ==
    IF personId \notin Keys(state.people) THEN state
    ELSE removePerson(state, personId)

\* mutant: the loop over the new parents is missing
AddChildTo_Nobody(people, parentIds, childId) == people

\* the second loop of reassignParents: add childId to each new parent
RECURSIVE AddChildTo(_, _, _)
AddChildTo(people, parentIds, childId) ==
    IF parentIds = <<>> THEN people
    ELSE LET parentId == Head(parentIds)
         IN  IF parentId \notin Keys(people)
             THEN AddChildTo(people, Tail(parentIds), childId)
             ELSE LET parent == Lookup(people, parentId)
                      updated == sanitizePerson(
                          [parent EXCEPT !.children = ensureUnique(Append(parent.children, childId))])
                  IN  AddChildTo(Put(people, updated), Tail(parentIds), childId)

\* mutant: ids that are not in the graph are not filtered out
nextParentIds_KeepAbsent(state, childId, parentIds) ==
    ensureUnique(SelectSeq(parentIds, LAMBDA parentId : parentId # childId))

\* mutant: the child itself is not filtered out of its new parents
nextParentIds_KeepChild(state, childId, parentIds) ==
    ensureUnique(SelectSeq(parentIds, LAMBDA parentId : parentId \in Keys(state.people)))

\* the new parent list of reassignParents
nextParentIds(state, childId, parentIds) ==
    ensureUnique(
        SelectSeq(parentIds, LAMBDA parentId :
            parentId # childId /\ parentId \in Keys(state.people)))

reassignParents(state, childId, parentIds) ==
    IF childId \notin Keys(state.people) THEN state
    ELSE LET child == Lookup(state.people, childId)
             newParentIds == nextParentIds(state, childId, parentIds)
             others == SelectSeq(state.people, LAMBDA p : p.id # childId)
             stripped == [i \in 1..Len(others) |->
                 sanitizePerson([others[i] EXCEPT
                     !.children = SelectSeq(others[i].children,
                                         LAMBDA existingChildId : existingChildId # childId)])]
             linked == AddChildTo(stripped, newParentIds, childId)
             \* updatedPeople is a fresh object: the child's key is set last
             updatedPeople == Append(linked, sanitizePerson([child EXCEPT !.parents = newParentIds]))
         IN  [state EXCEPT !.people = updatedPeople]

\* mutant: the first person upserted into a graph without root becomes the root
UPSERT_PERSON_AdoptRoot(state, payload) ==
    LET person == sanitizePerson(payload)
    IN  [rootPersonId |-> IF state.rootPersonId = NoId THEN person.id
                          ELSE state.rootPersonId,
         people |-> Put(state.people, person)]

UPSERT_PERSON(state, payload) ==
    LET person == sanitizePerson(payload)
    IN  [state EXCEPT !.people = Put(state.people, person)]

\* mutant: only the parent's record is written
LINK_PARENT_CHILD_ParentOnly(state, payload) ==
    LET parentId == payload.parentId
        childId == payload.childId
    IN  IF parentId \notin Keys(state.people) \/ childId \notin Keys(state.people)
        THEN state
        ELSE LET parent == Lookup(state.people, parentId)
                 updatedParent ==
                     [parent EXCEPT !.children = ensureUnique(Append(parent.children, childId))]
             IN  [state EXCEPT !.people = Put(state.people, updatedParent)]

\* mutant: the ids are appended without ensureUnique
LINK_PARENT_CHILD_Append(state, payload) ==
    LET parentId == payload.parentId
        childId == payload.childId
    IN  IF parentId \notin Keys(state.people) \/ childId \notin Keys(state.people)
        THEN state
        ELSE LET parent == Lookup(state.people, parentId)
                 child == Lookup(state.people, childId)
                 updatedParent == [parent EXCEPT !.children = Append(parent.children, childId)]
                 updatedChild == [child EXCEPT !.parents = Append(child.parents, parentId)]
             IN  [state EXCEPT !.people = Put(Put(state.people, updatedParent), updatedChild)]

LINK_PARENT_CHILD(state, payload) ==
    LET parentId == payload.parentId
        childId == payload.childId
    IN  IF parentId \notin Keys(state.people) \/ childId \notin Keys(state.people)
        THEN state
        ELSE LET parent == Lookup(state.people, parentId)
                 child == Lookup(state.people, childId)
                 updatedParent ==
                     [parent EXCEPT !.children = ensureUnique(Append(parent.children, childId))]
                 updatedChild ==
                     [child EXCEPT !.parents = ensureUnique(Append(child.parents, parentId))]
             \* [parentId] is written first, [childId] second: when both are
             \* the same key the second write replaces the first
             IN  [state EXCEPT !.people = Put(Put(state.people, updatedParent), updatedChild)]

\* mutant: only the person is required to be in the graph, not the spouse
LINK_SPOUSE_PersonOnly(state, payload) ==
    LET personId == payload.personId
        spouseId == payload.spouseId
    IN  IF personId \notin Keys(state.people)
        THEN state
        ELSE LET personA == Lookup(state.people, personId)
                 partnershipForA == [spouseId |-> spouseId,
                                     marriageDate |-> payload.marriageDate,
                                     unionId |-> payload.unionId]
                 updatedA == [personA EXCEPT
                     !.spouses = ensurePartnershipUnique(personA.spouses, partnershipForA)]
             IN  [state EXCEPT !.people = Put(state.people, updatedA)]

LINK_SPOUSE(state, payload) ==
    LET personId == payload.personId
        spouseId == payload.spouseId
    IN  IF personId \notin Keys(state.people) \/ spouseId \notin Keys(state.people)
        THEN state
        ELSE LET personA == Lookup(state.people, personId)
                 personB == Lookup(state.people, spouseId)
                 partnershipForA == [spouseId |-> spouseId,
                                     marriageDate |-> payload.marriageDate,
                                     unionId |-> payload.unionId]
                 partnershipForB == [spouseId |-> personId,
                                     marriageDate |-> payload.marriageDate,
                                     unionId |-> payload.unionId]
                 updatedA == [personA EXCEPT
                     !.spouses = ensurePartnershipUnique(personA.spouses, partnershipForA)]
                 updatedB == [personB EXCEPT
                     !.spouses = ensurePartnershipUnique(personB.spouses, partnershipForB)]
             IN  [state EXCEPT !.people = Put(Put(state.people, updatedA), updatedB)]

SET_ROOT_PERSON(state, payload) == [state EXCEPT !.rootPersonId = payload]

treeReducer(state, act) ==
    CASE act.type = "SET_TREE" -> act.payload
      [] act.type = "UPSERT_PERSON" -> UPSERT_PERSON(state, act.payload)
      [] act.type = "LINK_PARENT_CHILD" -> LINK_PARENT_CHILD(state, act.payload)
      [] act.type = "LINK_SPOUSE" -> LINK_SPOUSE(state, act.payload)
      [] act.type = "SET_ROOT_PERSON" -> SET_ROOT_PERSON(state, act.payload)
      [] act.type = "DELETE_PERSON" -> deletePerson(state, act.payload.personId)
      [] act.type = "REASSIGN_PARENTS" ->
            reassignParents(state, act.payload.childId, act.payload.parentIds)
      [] OTHER -> state

-----------------------------------------------------------------------------
(* The graph query helpers (resolveDefaultPartnerIds, isDescendant).       *)

\* the Set of resolveUnionPartners after the entries seen so far, as the
\* array Array.from makes of it
RECURSIVE partnersOfEntries(_, _, _, _)
partnersOfEntries(partners, person, spouses, unionId) ==
    IF spouses = <<>> THEN partners
    ELSE LET spouse == Head(spouses)
             withPerson == IF person.id \in Range(partners) THEN partners
                           ELSE Append(partners, person.id)
             withBoth == IF spouse.spouseId \in Range(withPerson) THEN withPerson
                         ELSE Append(withPerson, spouse.spouseId)
         IN  partnersOfEntries(IF spouse.unionId = unionId THEN withBoth ELSE partners,
                               person, Tail(spouses), unionId)

RECURSIVE partnersOfPeople(_, _, _)
partnersOfPeople(partners, people, unionId) ==
    IF people = <<>> THEN partners
    ELSE partnersOfPeople(
             partnersOfEntries(partners, Head(people), Head(people).spouses, unionId),
             Tail(people), unionId)

\* mutant: for a person who holds the union, the spouse of the person's first
\* Partnership is added instead of the spouse of the matching one
resolveUnionPartners_FirstEntry(state, unionId) ==
    LET holders == SelectSeq(state.people, LAMBDA person :
                       \E n \in 1..Len(person.spouses) : person.spouses[n].unionId = unionId)
        firsts == [i \in 1..Len(holders) |->
                      [holders[i] EXCEPT !.spouses = <<[Head(@) EXCEPT !.unionId = unionId]>>]]
    IN  partnersOfPeople(<<>>, firsts, unionId)

resolveUnionPartners(state, unionId) == partnersOfPeople(<<>>, state.people, unionId)

\* mutant: the first Partnership decides, however many there are
resolveDefaultPartnerIds_First(state, personId) ==
    IF personId \notin Keys(state.people) THEN <<>>
    ELSE LET person == Lookup(state.people, personId)
         IN  IF Len(person.spouses) = 0 THEN <<person.id>>
             ELSE LET spouseRecord == person.spouses[1]
                  IN  IF spouseRecord.spouseId \notin Keys(state.people)
                      THEN <<person.id>>
                      ELSE <<person.id, Lookup(state.people, spouseRecord.spouseId).id>>

resolveDefaultPartnerIds(state, personId) ==
    IF personId \notin Keys(state.people) THEN <<>>
    ELSE LET person == Lookup(state.people, personId)
         IN  IF Len(person.spouses) # 1 THEN <<person.id>>
             ELSE LET spouseRecord == person.spouses[1]
                  IN  IF spouseRecord.spouseId \notin Keys(state.people)
                      THEN <<person.id>>
                      ELSE <<person.id, Lookup(state.people, spouseRecord.spouseId).id>>

\* The while loop of isDescendant shifts one id off the queue per turn.  The
\* queue receives the ancestor's children once and the children of an id when
\* the id is visited, which happens once per id: a loop that ends at all ends
\* within this number of turns.
RECURSIVE ChildLinks(_)
ChildLinks(people) ==
    IF people = <<>> THEN 0
    ELSE Len(Head(people).children) + ChildLinks(Tail(people))

TurnLimit(state) == 1 + 2 * ChildLinks(state.people)

\* mutant: no visited set
RECURSIVE isDescendantLoop_NoVisited(_, _, _, _, _)
isDescendantLoop_NoVisited(state, possibleDescendantId, visited, queue, turns) ==
    IF queue = <<>> THEN [halted |-> TRUE, value |-> FALSE]
    ELSE IF turns = 0 THEN [halted |-> FALSE, value |-> FALSE]
    ELSE LET currentId == Head(queue)
         IN  IF currentId = possibleDescendantId THEN [halted |-> TRUE, value |-> TRUE]
             ELSE IF currentId \notin Keys(state.people)
             THEN isDescendantLoop_NoVisited(state, possibleDescendantId, visited,
                                             Tail(queue), turns - 1)
             ELSE isDescendantLoop_NoVisited(state, possibleDescendantId, visited,
                      Tail(queue) \o Lookup(state.people, currentId).children, turns - 1)

\* the while loop of isDescendant, given `turns` turns: `halted` tells that the
\* function returned, `value` what it returned
RECURSIVE isDescendantLoop(_, _, _, _, _)
isDescendantLoop(state, possibleDescendantId, visited, queue, turns) ==
    IF queue = <<>> THEN [halted |-> TRUE, value |-> FALSE]
    ELSE IF turns = 0 THEN [halted |-> FALSE, value |-> FALSE]
    ELSE LET currentId == Head(queue)
         IN  IF currentId = possibleDescendantId THEN [halted |-> TRUE, value |-> TRUE]
             ELSE IF currentId \in visited
             THEN isDescendantLoop(state, possibleDescendantId, visited,
                                   Tail(queue), turns - 1)
             ELSE IF currentId \notin Keys(state.people)
             THEN isDescendantLoop(state, possibleDescendantId, visited \cup {currentId},
                                   Tail(queue), turns - 1)
             ELSE isDescendantLoop(state, possibleDescendantId, visited \cup {currentId},
                      Tail(queue) \o Lookup(state.people, currentId).children, turns - 1)

\* mutant: the traversal starts at the ancestor instead of its children
isDescendant_FromAncestor(state, ancestorId, possibleDescendantId) ==
    isDescendantLoop(state, possibleDescendantId, {}, <<ancestorId>>, TurnLimit(state))

isDescendant(state, ancestorId, possibleDescendantId) ==
    LET queue == IF ancestorId \in Keys(state.people)
                 THEN Lookup(state.people, ancestorId).children
                 ELSE <<>>
    IN  isDescendantLoop(state, possibleDescendantId, {}, queue, TurnLimit(state))

\* mutant: the arguments of isDescendant are swapped
invalidAncestor_Swapped(state, childId, chosenIds) ==
    SelectSeq(chosenIds, LAMBDA parentId : isDescendant(state, parentId, childId).value)

\* nextParentIds.find(parentId => isDescendant(tree, childId, parentId)): the
\* chosen parents that descend from the child
invalidAncestor(state, childId, chosenIds) ==
    SelectSeq(chosenIds, LAMBDA parentId : isDescendant(state, childId, parentId).value)

\* handleConfirm of ParentSelectorModal reaches onSelectParents
handleConfirmAccepts(state, childId, chosenIds) ==
    /\ childId \notin Range(chosenIds)
    /\ invalidAncestor(state, childId, chosenIds) = <<>>

-----------------------------------------------------------------------------
(* The layout engine (layout.ts) and its copy in GenealogyTreeView.tsx.    *)
(*                                                                         *)
(* A graph that is laid out may come from a file, so a record need not be  *)
(* stored under its own id: such a record carries the key of the mapping   *)
(* in `key`, next to the fields of Person.  The text fields are sequences  *)
(* of characters.  Lengths and coordinates count quarters of a pixel (Px   *)
(* to the pixel): the code halves a sum of halves, and all its numbers are *)
(* whole multiples of a quarter.                                           *)

Px == 4

HORIZONTAL_GAP == 80 * Px

VERTICAL_GAP == 180 * Px

CANVAS_PADDING == 160 * Px

UNION_NODE_SIZE == 24 * Px

BASE_HEIGHT == 100

MIN_WIDTH == 220

MAX_WIDTH == 320

CHARACTER_WIDTH == 8

LINE_HEIGHT == 24

Max(a, b) == IF a >= b THEN a ELSE b

Min(a, b) == IF a <= b THEN a ELSE b

\* Math.ceil(a / b) for positive b
CeilDiv(a, b) == (a + b - 1) \div b

\* a text of n characters
Letters(n) == [i \in 1..n |-> "x"]

estimateWrappedLines(content, width) ==
    IF content = <<>> THEN 0
    ELSE LET effectiveCharsPerLine == Max(18, width \div CHARACTER_WIDTH)
         IN  CeilDiv(Len(content), effectiveCharsPerLine)

\* a text field of a person; a record that carries no texts has empty ones
TextOf(person, field) == IF field \in DOMAIN person THEN person[field] ELSE <<>>

measurePersonNode(person) ==
    LET nameLine == Trim(TextOf(person, "firstName") \o <<" ">> \o TextOf(person, "lastName"))
        birthLine == IF TextOf(person, "birthPlace") # <<>>
                     THEN <<"B", "o", "r", "n", ":", " ">> \o TextOf(person, "birthPlace")
                     ELSE <<>>
        deathLine == IF TextOf(person, "deathPlace") # <<>>
                     THEN <<"D", "i", "e", "d", ":", " ">> \o TextOf(person, "deathPlace")
                     ELSE <<>>
        longestLine == Max(Max(Len(nameLine), Len(birthLine)), Max(Len(deathLine), 18))
        estimatedWidth == Min(MAX_WIDTH, Max(MIN_WIDTH, longestLine * 7))
        baseLines == 2
        birthLines == estimateWrappedLines(birthLine, estimatedWidth)
        deathLines == estimateWrappedLines(deathLine, estimatedWidth)
        totalLines == baseLines + birthLines + deathLines
        height == Max(BASE_HEIGHT, totalLines * LINE_HEIGHT)
    IN  [width |-> estimatedWidth * Px, height |-> height * Px]

\* a Map: its entries in insertion order
MapHas(map, k) == \E i \in 1..Len(map) : map[i].key = k

MapGet(map, k) == map[CHOOSE i \in 1..Len(map) : map[i].key = k].value

\* Map.prototype.set: a key that is there keeps its place
MapSet(map, k, v) ==
    IF MapHas(map, k)
    THEN [i \in 1..Len(map) |-> IF map[i].key = k THEN [key |-> k, value |-> v] ELSE map[i]]
    ELSE Append(map, [key |-> k, value |-> v])

\* the key a record is stored under: its id, unless the record says otherwise
KeyOf(person) == IF "key" \in DOMAIN person THEN person.key ELSE person.id

\* Object.keys(tree.people)
StoredKeys(state) == [i \in 1..Len(state.people) |-> KeyOf(state.people[i])]

\* tree.people[id] is defined
IsStored(state, id) == \E i \in 1..Len(state.people) : KeyOf(state.people[i]) = id

\* tree.people[id]
Stored(state, id) ==
    state.people[CHOOSE i \in 1..Len(state.people) : KeyOf(state.people[i]) = id]

\* mutant: a parent is put one row below, like a child
neighborsOf_ParentsBelow(person) ==
    [i \in 1..Len(person.children) |-> [id |-> person.children[i], depthDelta |-> 1]]
    \o [i \in 1..Len(person.parents) |-> [id |-> person.parents[i], depthDelta |-> 1]]
    \o [i \in 1..Len(person.spouses) |-> [id |-> person.spouses[i].spouseId, depthDelta |-> 0]]

\* the neighbours of a person, in the order the traversal takes them
neighborsOf(person) ==
    [i \in 1..Len(person.children) |-> [id |-> person.children[i], depthDelta |-> 1]]
    \o [i \in 1..Len(person.parents) |-> [id |-> person.parents[i], depthDelta |-> -1]]
    \o [i \in 1..Len(person.spouses) |-> [id |-> person.spouses[i].spouseId, depthDelta |-> 0]]

\* mutant: a neighbour is queued whether or not it has been visited
visitNeighbor_NoVisited(st, id, nextDepth) ==
    LET withDepth == IF MapHas(st.depthMap, id) THEN st
                     ELSE [st EXCEPT !.depthMap = MapSet(@, id, nextDepth)]
    IN  [withDepth EXCEPT !.visited = @ \cup {id},
                          !.orderMap = MapSet(@, id, withDepth.orderCounter),
                          !.orderCounter = @ + 1,
                          !.queue = Append(@, id)]

\* mutant: the depth is set whether or not the id has one
visitNeighbor_Overwrite(st, id, nextDepth) ==
    LET withDepth == [st EXCEPT !.depthMap = MapSet(@, id, nextDepth)]
    IN  IF id \in withDepth.visited THEN withDepth
        ELSE [withDepth EXCEPT !.visited = @ \cup {id},
                               !.orderMap = MapSet(@, id, withDepth.orderCounter),
                               !.orderCounter = @ + 1,
                               !.queue = Append(@, id)]

\* the body of neighbors.forEach
visitNeighbor(st, id, nextDepth) ==
    LET withDepth == IF MapHas(st.depthMap, id) THEN st
                     ELSE [st EXCEPT !.depthMap = MapSet(@, id, nextDepth)]
    IN  IF id \in withDepth.visited THEN withDepth
        ELSE [withDepth EXCEPT !.visited = @ \cup {id},
                               !.orderMap = MapSet(@, id, withDepth.orderCounter),
                               !.orderCounter = @ + 1,
                               !.queue = Append(@, id)]

RECURSIVE visitNeighbors(_, _, _)
visitNeighbors(st, neighbors, currentDepth) ==
    IF neighbors = <<>> THEN st
    ELSE visitNeighbors(
             visitNeighbor(st, Head(neighbors).id, currentDepth + Head(neighbors).depthDelta),
             Tail(neighbors), currentDepth)

\* every id the graph holds or names, and the root of the traversal: an id is
\* queued when it is first visited, so a traversal that ends at all ends
\* within this number of turns
PlacementTurnLimit(state, rootId) ==
    Cardinality({rootId} \cup Range(StoredKeys(state))
                \cup UNION {Refs(state.people[i]) : i \in 1..Len(state.people)})

\* the while loop of computePlacementMaps, given `turns` turns
RECURSIVE placementLoop(_, _, _)
placementLoop(state, st, turns) ==
    IF st.queue = <<>> \/ turns = 0 THEN st
    ELSE LET currentId == Head(st.queue)
             currentDepth == MapGet(st.depthMap, currentId)
             shifted == [st EXCEPT !.queue = Tail(@)]
         IN  IF ~IsStored(state, currentId)
             THEN placementLoop(state, shifted, turns - 1)
             ELSE placementLoop(state,
                      visitNeighbors(shifted, neighborsOf(Stored(state, currentId)),
                                     currentDepth),
                      turns - 1)

\* the loop over Object.keys(tree.people) that places whom the traversal left
RECURSIVE placeUnreached(_, _)
placeUnreached(st, keys) ==
    IF keys = <<>> THEN st
    ELSE LET id == Head(keys)
             withDepth == IF MapHas(st.depthMap, id) THEN st
                          ELSE [st EXCEPT !.depthMap = MapSet(@, id, 0)]
             withOrder == IF MapHas(withDepth.orderMap, id) THEN withDepth
                          ELSE [withDepth EXCEPT
                                   !.orderMap = MapSet(@, id, withDepth.orderCounter),
                                   !.orderCounter = @ + 1]
         IN  placeUnreached(withOrder, Tail(keys))

\* `halted` tells that the while loop ran to an empty queue
computePlacementMaps(state, rootId) ==
    LET start == [depthMap |-> <<[key |-> rootId, value |-> 0]>>,
                  orderMap |-> <<[key |-> rootId, value |-> 0]>>,
                  visited |-> {rootId},
                  queue |-> <<rootId>>,
                  orderCounter |-> 1]
        traversed == placementLoop(state, start, PlacementTurnLimit(state, rootId))
        placed == placeUnreached(traversed, StoredKeys(state))
    IN  [depthMap |-> placed.depthMap,
         orderMap |-> placed.orderMap,
         halted |-> traversed.queue = <<>>]

\* depthMap.forEach: the ids of each depth, in the order of the depth map
RECURSIVE groupLevels(_, _)
groupLevels(levelGroups, depthEntries) ==
    IF depthEntries = <<>> THEN levelGroups
    ELSE LET id == Head(depthEntries).key
             depth == Head(depthEntries).value
             entries == IF MapHas(levelGroups, depth)
                        THEN Append(MapGet(levelGroups, depth), id)
                        ELSE <<id>>
         IN  groupLevels(MapSet(levelGroups, depth, entries), Tail(depthEntries))

\* Array.prototype.sort with a comparator that subtracts two numbers, here the
\* `rank` of each entry: ascending, and entries of equal rank keep their order
RECURSIVE StableSort(_)
StableSort(entries) ==
    IF entries = <<>> THEN <<>>
    ELSE LET sorted == StableSort(SubSeq(entries, 1, Len(entries) - 1))
             last == entries[Len(entries)]
         IN  SelectSeq(sorted, LAMBDA e : e.rank <= last.rank)
             \o <<last>>
             \o SelectSeq(sorted, LAMBDA e : e.rank > last.rank)

\* map.get(id) ?? 0
GetOrZero(map, id) == IF MapHas(map, id) THEN MapGet(map, id) ELSE 0

\* mutant: the row is the sorted ids, no partner is pulled next to a person
orderLevel_SortedOnly(state, depthMap, level, ids, row) == ids

\* ids.forEach of a level: an id that is not taken yet is put in the row, and
\* behind it the partners of its Partnerships that are stored, are not taken
\* and are of this level.  The filter runs over all Partnerships before the
\* first partner is taken.
RECURSIVE orderLevel(_, _, _, _, _)
orderLevel(state, depthMap, level, ids, row) ==
    IF ids = <<>> THEN row.ordered
    ELSE LET id == Head(ids)
             put == [ordered |-> Append(row.ordered, id), taken |-> row.taken \cup {id}]
         IN  IF id \in row.taken
             THEN orderLevel(state, depthMap, level, Tail(ids), row)
             ELSE IF ~IsStored(state, id)
             THEN orderLevel(state, depthMap, level, Tail(ids), put)
             ELSE LET person == Stored(state, id)
                      kept == SelectSeq(person.spouses, LAMBDA spouse :
                                  /\ IsStored(state, spouse.spouseId)
                                  /\ Stored(state, spouse.spouseId).id \notin put.taken
                                  /\ GetOrZero(depthMap, Stored(state, spouse.spouseId).id)
                                        = level)
                      partnerIds == [i \in 1..Len(kept) |->
                                        Stored(state, kept[i].spouseId).id]
                  IN  orderLevel(state, depthMap, level, Tail(ids),
                                 [ordered |-> put.ordered \o partnerIds,
                                  taken |-> put.taken \cup Range(partnerIds)])

\* mutant: the test of tree.people[id] is inverted, so that the persons the
\* mapping holds are passed over
placeRow_Inverted(state, sizeMap, fallbackSize, currentY, ordered, row) == row

\* mutant: currentX advances by the width of the node, without the gap
RECURSIVE placeRow_NoGap(_, _, _, _, _, _)
placeRow_NoGap(state, sizeMap, fallbackSize, currentY, ordered, row) ==
    IF ordered = <<>> THEN row
    ELSE LET id == Head(ordered)
         IN  IF ~IsStored(state, id)
             THEN placeRow_NoGap(state, sizeMap, fallbackSize, currentY, Tail(ordered), row)
             ELSE LET size == IF MapHas(sizeMap, id) THEN MapGet(sizeMap, id)
                              ELSE fallbackSize
                      node == [person |-> Stored(state, id),
                               x |-> row.currentX,
                               y |-> currentY,
                               width |-> size.width,
                               height |-> size.height]
                  IN  placeRow_NoGap(state, sizeMap, fallbackSize, currentY, Tail(ordered),
                          [personNodes |-> Append(row.personNodes, node),
                           positionMap |-> MapSet(row.positionMap, id, node),
                           currentX |-> row.currentX + size.width,
                           levelMaxHeight |-> Max(row.levelMaxHeight, size.height)])

\* ordered.forEach of a level: the stored persons of the row get their nodes,
\* left to right
RECURSIVE placeRow(_, _, _, _, _, _)
placeRow(state, sizeMap, fallbackSize, currentY, ordered, row) ==
    IF ordered = <<>> THEN row
    ELSE LET id == Head(ordered)
         IN  IF ~IsStored(state, id)
             THEN placeRow(state, sizeMap, fallbackSize, currentY, Tail(ordered), row)
             ELSE LET size == IF MapHas(sizeMap, id) THEN MapGet(sizeMap, id)
                              ELSE fallbackSize
                      node == [person |-> Stored(state, id),
                               x |-> row.currentX,
                               y |-> currentY,
                               width |-> size.width,
                               height |-> size.height]
                  IN  placeRow(state, sizeMap, fallbackSize, currentY, Tail(ordered),
                          [personNodes |-> Append(row.personNodes, node),
                           positionMap |-> MapSet(row.positionMap, id, node),
                           currentX |-> row.currentX + size.width + HORIZONTAL_GAP,
                           levelMaxHeight |-> Max(row.levelMaxHeight, size.height)])

\* sortedLevels.forEach: the rows from the least depth down
RECURSIVE placeLevels(_, _, _, _, _, _)
placeLevels(state, maps, sizeMap, fallbackSize, sortedLevels, placed) ==
    IF sortedLevels = <<>> THEN placed
    ELSE LET level == Head(sortedLevels).key
             ids == Head(sortedLevels).value
             sortedIds == StableSort([i \in 1..Len(ids) |->
                              [rank |-> GetOrZero(maps.orderMap, ids[i]), id |-> ids[i]]])
             ordered == orderLevel(state, maps.depthMap, level,
                                   [i \in 1..Len(sortedIds) |-> sortedIds[i].id],
                                   [ordered |-> <<>>, taken |-> {}])
             row == placeRow(state, sizeMap, fallbackSize, placed.currentY, ordered,
                             [personNodes |-> placed.personNodes,
                              positionMap |-> placed.positionMap,
                              currentX |-> CANVAS_PADDING,
                              levelMaxHeight |-> 0])
         IN  placeLevels(state, maps, sizeMap, fallbackSize, Tail(sortedLevels),
                 [personNodes |-> row.personNodes,
                  positionMap |-> row.positionMap,
                  currentY |-> placed.currentY + row.levelMaxHeight + VERTICAL_GAP,
                  maxRowWidth |-> Max(placed.maxRowWidth, row.currentX)])

\* mutant: a child of either partner counts as a child of the union
findUnionChildren_Either(state, parentAId, parentBId) ==
    LET found == SelectSeq(state.people, LAMBDA person :
                     parentAId \in Range(person.parents)
                     \/ parentBId \in Range(person.parents))
    IN  [i \in 1..Len(found) |-> found[i].id]

findUnionChildren(state, parentAId, parentBId) ==
    LET found == SelectSeq(state.people, LAMBDA person :
                     parentAId \in Range(person.parents)
                     /\ parentBId \in Range(person.parents))
    IN  [i \in 1..Len(found) |-> found[i].id]

\* the centre of a person node
CenterOf(node) == [x |-> node.x + node.width \div 2, y |-> node.y + node.height \div 2]

\* unionNode.children.forEach: an edge to every child that has a node.  The
\* keys of unionChildLinks, `${partner}-${child}`, are pairs here.
RECURSIVE linkUnionChildren(_, _, _, _, _, _)
linkUnionChildren(positionMap, unionId, unionCenter, partners, children, drawn) ==
    IF children = <<>> THEN drawn
    ELSE LET childId == Head(children)
         IN  IF ~MapHas(positionMap, childId)
             THEN linkUnionChildren(positionMap, unionId, unionCenter, partners,
                                    Tail(children), drawn)
             ELSE LET childNode == MapGet(positionMap, childId)
                      edge == [id |-> <<unionId, "child", childId>>,
                               from |-> [x |-> unionCenter.x,
                                         y |-> unionCenter.y + UNION_NODE_SIZE \div 2],
                               to |-> [x |-> childNode.x + childNode.width \div 2,
                                       y |-> childNode.y]]
                  IN  linkUnionChildren(positionMap, unionId, unionCenter, partners,
                          Tail(children),
                          [drawn EXCEPT
                              !.edges = Append(@, edge),
                              !.unionChildLinks =
                                  @ \cup {<<partners[1], childId>>, <<partners[2], childId>>}])

\* mutant: processedUnions is not consulted
placeUnion_NoProcessed(state, positionMap, person, spouse, drawn) ==
    IF ~IsStored(state, spouse.spouseId) THEN drawn
    ELSE LET partner == Stored(state, spouse.spouseId)
         IN  IF ~MapHas(positionMap, person.id) \/ ~MapHas(positionMap, partner.id)
             THEN drawn
             ELSE LET personNode == MapGet(positionMap, person.id)
                      partnerNode == MapGet(positionMap, partner.id)
                      unionCenter ==
                          [x |-> (CenterOf(personNode).x + CenterOf(partnerNode).x) \div 2,
                           y |-> (CenterOf(personNode).y + CenterOf(partnerNode).y) \div 2]
                      partners == <<person.id, partner.id>>
                      unionNode == [id |-> spouse.unionId,
                                    partners |-> partners,
                                    x |-> unionCenter.x - UNION_NODE_SIZE \div 2,
                                    y |-> unionCenter.y - UNION_NODE_SIZE \div 2,
                                    children |-> findUnionChildren(state, person.id, partner.id)]
                      partnerEdges ==
                          << [id |-> <<unionNode.id, "partner", "0">>,
                              from |-> CenterOf(personNode), to |-> unionCenter],
                             [id |-> <<unionNode.id, "partner", "1">>,
                              from |-> CenterOf(partnerNode), to |-> unionCenter] >>
                  IN  linkUnionChildren(positionMap, unionNode.id, unionCenter, partners,
                          unionNode.children,
                          [unionNodes |-> Append(drawn.unionNodes, unionNode),
                           edges |-> drawn.edges \o partnerEdges,
                           processedUnions |-> drawn.processedUnions \cup {spouse.unionId},
                           unionChildLinks |-> drawn.unionChildLinks])

\* the body of person.spouses.forEach: the union of a Partnership is drawn
\* once, when both partners have a node
placeUnion(state, positionMap, person, spouse, drawn) ==
    IF spouse.unionId \in drawn.processedUnions THEN drawn
    ELSE IF ~IsStored(state, spouse.spouseId) THEN drawn
    ELSE LET partner == Stored(state, spouse.spouseId)
         IN  IF ~MapHas(positionMap, person.id) \/ ~MapHas(positionMap, partner.id)
             THEN drawn
             ELSE LET personNode == MapGet(positionMap, person.id)
                      partnerNode == MapGet(positionMap, partner.id)
                      unionCenter ==
                          [x |-> (CenterOf(personNode).x + CenterOf(partnerNode).x) \div 2,
                           y |-> (CenterOf(personNode).y + CenterOf(partnerNode).y) \div 2]
                      partners == <<person.id, partner.id>>
                      unionNode == [id |-> spouse.unionId,
                                    partners |-> partners,
                                    x |-> unionCenter.x - UNION_NODE_SIZE \div 2,
                                    y |-> unionCenter.y - UNION_NODE_SIZE \div 2,
                                    children |-> findUnionChildren(state, person.id, partner.id)]
                      partnerEdges ==
                          << [id |-> <<unionNode.id, "partner", "0">>,
                              from |-> CenterOf(personNode), to |-> unionCenter],
                             [id |-> <<unionNode.id, "partner", "1">>,
                              from |-> CenterOf(partnerNode), to |-> unionCenter] >>
                  IN  linkUnionChildren(positionMap, unionNode.id, unionCenter, partners,
                          unionNode.children,
                          [unionNodes |-> Append(drawn.unionNodes, unionNode),
                           edges |-> drawn.edges \o partnerEdges,
                           processedUnions |-> drawn.processedUnions \cup {spouse.unionId},
                           unionChildLinks |-> drawn.unionChildLinks])

RECURSIVE placeUnionsOf(_, _, _, _, _)
placeUnionsOf(state, positionMap, person, spouses, drawn) ==
    IF spouses = <<>> THEN drawn
    ELSE placeUnionsOf(state, positionMap, person, Tail(spouses),
                       placeUnion(state, positionMap, person, Head(spouses), drawn))

\* people.forEach over the Partnerships of every person
RECURSIVE placeUnions(_, _, _, _)
placeUnions(state, positionMap, people, drawn) ==
    IF people = <<>> THEN drawn
    ELSE placeUnions(state, positionMap, Tail(people),
                     placeUnionsOf(state, positionMap, Head(people), Head(people).spouses, drawn))

\* mutant: unionChildLinks is not consulted
RECURSIVE linkChildren_Always(_, _, _, _, _)
linkChildren_Always(positionMap, unionChildLinks, parent, children, edges) ==
    IF children = <<>> THEN edges
    ELSE LET childId == Head(children)
         IN  IF ~MapHas(positionMap, childId)
             THEN linkChildren_Always(positionMap, unionChildLinks, parent, Tail(children),
                                      edges)
             ELSE LET parentNode == MapGet(positionMap, parent.id)
                      childNode == MapGet(positionMap, childId)
                      edge == [id |-> <<"direct", parent.id, childId>>,
                               from |-> [x |-> parentNode.x + parentNode.width \div 2,
                                         y |-> parentNode.y + parentNode.height],
                               to |-> [x |-> childNode.x + childNode.width \div 2,
                                       y |-> childNode.y]]
                  IN  linkChildren_Always(positionMap, unionChildLinks, parent, Tail(children),
                                          Append(edges, edge))

\* parent.children.forEach: a direct edge for every child with a node that no
\* union of the parent is linked to
RECURSIVE linkChildren(_, _, _, _, _)
linkChildren(positionMap, unionChildLinks, parent, children, edges) ==
    IF children = <<>> THEN edges
    ELSE LET childId == Head(children)
         IN  IF <<parent.id, childId>> \in unionChildLinks \/ ~MapHas(positionMap, childId)
             THEN linkChildren(positionMap, unionChildLinks, parent, Tail(children), edges)
             ELSE LET parentNode == MapGet(positionMap, parent.id)
                      childNode == MapGet(positionMap, childId)
                      edge == [id |-> <<"direct", parent.id, childId>>,
                               from |-> [x |-> parentNode.x + parentNode.width \div 2,
                                         y |-> parentNode.y + parentNode.height],
                               to |-> [x |-> childNode.x + childNode.width \div 2,
                                       y |-> childNode.y]]
                  IN  linkChildren(positionMap, unionChildLinks, parent, Tail(children),
                                   Append(edges, edge))

\* people.forEach over the children of every person that has a node
RECURSIVE drawDirectEdges(_, _, _, _)
drawDirectEdges(positionMap, unionChildLinks, people, edges) ==
    IF people = <<>> THEN edges
    ELSE LET parent == Head(people)
         IN  IF ~MapHas(positionMap, parent.id)
             THEN drawDirectEdges(positionMap, unionChildLinks, Tail(people), edges)
             ELSE drawDirectEdges(positionMap, unionChildLinks, Tail(people),
                      linkChildren(positionMap, unionChildLinks, parent, parent.children,
                                   edges))

\* people.forEach(person => sizeMap.set(person.id, measurePersonNode(person)))
RECURSIVE measureAll(_, _)
measureAll(sizeMap, people) ==
    IF people = <<>> THEN sizeMap
    ELSE measureAll(MapSet(sizeMap, Head(people).id, measurePersonNode(Head(people))),
                    Tail(people))

\* mutant: Math.min in the place of Math.max
Greatest_Least(numbers) == CHOOSE n \in numbers : \A m \in numbers : n <= m

\* Math.max over a set of numbers that holds 0
Greatest(numbers) == CHOOSE n \in numbers : \A m \in numbers : m <= n

\* The layout as computeTreeLayout and its copy computeLayout compute it; the
\* two differ in the size they give a node whose key has no measured size.
\* `returned` tells that the traversal of computePlacementMaps ended.
layoutWithFallback(state, fallbackSize) ==
    IF Len(state.people) = 0
    THEN [personNodes |-> <<>>, unionNodes |-> <<>>, edges |-> <<>>,
          width |-> 0, height |-> 0, returned |-> TRUE]
    ELSE LET people == state.people
             sizeMap == measureAll(<<>>, people)
             rootId == IF state.rootPersonId # NoId THEN state.rootPersonId
                       ELSE people[1].id
             maps == computePlacementMaps(state, rootId)
             levelGroups == groupLevels(<<>>, maps.depthMap)
             sortedLevels == StableSort([i \in 1..Len(levelGroups) |->
                                 [rank |-> levelGroups[i].key,
                                  key |-> levelGroups[i].key,
                                  value |-> levelGroups[i].value]])
             placed == placeLevels(state, maps, sizeMap, fallbackSize, sortedLevels,
                           [personNodes |-> <<>>, positionMap |-> <<>>,
                            currentY |-> CANVAS_PADDING, maxRowWidth |-> 0])
             drawn == placeUnions(state, placed.positionMap, people,
                          [unionNodes |-> <<>>, edges |-> <<>>,
                           processedUnions |-> {}, unionChildLinks |-> {}])
             edges == drawDirectEdges(placed.positionMap, drawn.unionChildLinks, people,
                                      drawn.edges)
             maxX == Greatest({0}
                         \cup {node.x + node.width : node \in Range(placed.personNodes)}
                         \cup {node.x + UNION_NODE_SIZE : node \in Range(drawn.unionNodes)})
             maxY == Greatest({0}
                         \cup {node.y + node.height : node \in Range(placed.personNodes)}
                         \cup {node.y + UNION_NODE_SIZE : node \in Range(drawn.unionNodes)})
         IN  [personNodes |-> placed.personNodes,
              unionNodes |-> drawn.unionNodes,
              edges |-> edges,
              width |-> Max(placed.maxRowWidth + CANVAS_PADDING, maxX + CANVAS_PADDING),
              height |-> maxY + CANVAS_PADDING,
              returned |-> maps.halted]

\* layout.ts, used by renderTreeToSvg
computeTreeLayout(state) ==
    layoutWithFallback(state, [width |-> MIN_WIDTH * Px, height |-> BASE_HEIGHT * Px])

\* GenealogyTreeView.tsx, used on screen
computeLayout(state) ==
    layoutWithFallback(state, [width |-> 220 * Px, height |-> 140 * Px])

-----------------------------------------------------------------------------
(* Inputs of the actions.                                                  *)

Partnership(spouseId, unionId, marriageDate) ==
    [spouseId |-> spouseId, marriageDate |-> marriageDate, unionId |-> unionId]

Person(id, birthDate, deathDate, parents, spouses, children) ==
    [id |-> id, birthDate |-> birthDate, deathDate |-> deathDate,
     parents |-> parents, spouses |-> spouses, children |-> children]

\* (birthDate, deathDate) as a form or a file may supply them
RawDatePairs ==
    { <<Null, <<" ">>>>,
      <<<<" ", "x", " ">>, <<"x", " ">>>> }

\* persons without edges
EdgeFreePersons ==
    { Person(id, d[1], d[2], <<>>, <<>>, <<>>) : id \in PersonIds, d \in RawDatePairs }

\* persons that carry edges in the payload
EdgePersons ==
    { Person(id, Null, Null, <<o>>, <<Partnership(o, "u1", Null)>>, <<o, o>>) :
        id \in PersonIds, o \in PersonIds }

\* The records of a stored or imported file, which the store adopts as they
\* are: a family (a and b married, c their child), a lineage (a, b, c in a
\* chain, c married to a), and records nobody has sanitized.
ImportKinds == {"family", "lineage", "raw"}

ImportPerson(kind, id) ==
    CASE kind = "family" /\ id = "a" ->
            Person("a", <<"x">>, Null, <<>>, <<Partnership("b", "u1", Null)>>, <<"c">>)
      [] kind = "family" /\ id = "b" ->
            Person("b", Null, Null, <<>>, <<Partnership("a", "u1", Null)>>, <<"c">>)
      [] kind = "family" /\ id = "c" ->
            Person("c", Null, Null, <<"a", "b">>, <<>>, <<>>)
      [] kind = "lineage" /\ id = "a" ->
            Person("a", Null, Null, <<>>, <<Partnership("c", "u2", <<"x">>)>>, <<"b">>)
      [] kind = "lineage" /\ id = "b" ->
            Person("b", Null, <<"x">>, <<"a">>, <<>>, <<"c">>)
      [] kind = "lineage" /\ id = "c" ->
            Person("c", Null, Null, <<"b">>, <<Partnership("a", "u2", <<"x">>)>>, <<>>)
      [] kind = "raw" /\ id = "a" ->
            Person("a", <<" ", "x">>, <<" ">>, <<"b", "b">>,
                   <<Partnership("b", "u1", Null), Partnership("c", "u1", <<"x">>)>>,
                   <<"a", "c", "a">>)
      [] kind = "raw" /\ id = "b" ->
            Person("b", <<>>, <<"x", " ">>, <<"b", "a", "b">>,
                   <<Partnership("a", "u1", Null), Partnership("a", "u2", Null),
                     Partnership("c", "u1", <<"x">>)>>,
                   <<"a", "a">>)
      [] kind = "raw" /\ id = "c" ->
            Person("c", <<"x", " ">>, Null, <<"a", "c", "a">>,
                   <<Partnership("c", "u2", Null)>>,
                   <<"b", "b", "c">>)

\* the orders in which a file may hold some of the persons
ImportOrders ==
    { <<>>, <<"a">>, <<"b">>, <<"c">>,
      <<"a", "b">>, <<"b", "c">>, <<"c", "a">>,
      <<"a", "b", "c">>, <<"b", "c", "a">>, <<"c", "a", "b">> }

ImportGraphs ==
    { [rootPersonId |-> r,
       people |-> [i \in 1..Len(order) |-> ImportPerson(kind, order[i])]] :
        r \in {NoId, "a"}, order \in ImportOrders, kind \in ImportKinds }

\* a parent (a) and two siblings (b, c)
SiblingPerson(id) ==
    CASE id = "a" -> Person("a", Null, Null, <<>>, <<>>, <<"b", "c">>)
      [] id = "b" -> Person("b", Null, Null, <<"a">>, <<>>, <<>>)
      [] id = "c" -> Person("c", Null, Null, <<"a">>, <<>>, <<>>)

\* the graphs the query helpers are asked about
QueryGraphs ==
    ImportGraphs \cup
    { [rootPersonId |-> r, people |-> [i \in 1..Len(order) |-> SiblingPerson(order[i])]] :
        r \in {NoId, "a"}, order \in ImportOrders }

\* the texts of the persons: a has short ones, b a birth place of several
\* lines, c a long name
TextsOf(id) ==
    CASE id = "b" -> [firstName |-> <<"x">>, lastName |-> <<"x">>,
                      birthPlace |-> Letters(100), deathPlace |-> <<>>]
      [] id = "c" -> [firstName |-> Letters(40), lastName |-> <<>>,
                      birthPlace |-> <<>>, deathPlace |-> Letters(3)]
      [] OTHER -> [firstName |-> <<"x">>, lastName |-> <<"x">>,
                   birthPlace |-> <<>>, deathPlace |-> <<>>]

\* a record of a file: the person with its texts, under a key of the mapping
StoredAs(key, person) == [key |-> key] @@ TextsOf(person.id) @@ person

\* Families the layout is asked to draw: a chain (a, b, c), a person married
\* twice (a to b, a to c), a couple married under two unions with a child,
\* a cycle of parents, and a union identifier that three persons hold.
LayoutPerson(kind, id) ==
    CASE kind = "chain" /\ id = "a" -> Person("a", Null, Null, <<>>, <<>>, <<"b">>)
      [] kind = "chain" /\ id = "b" -> Person("b", Null, Null, <<"a">>, <<>>, <<"c">>)
      [] kind = "chain" /\ id = "c" -> Person("c", Null, Null, <<"b">>, <<>>, <<>>)
      [] kind = "remarried" /\ id = "a" ->
            Person("a", Null, Null, <<>>,
                   <<Partnership("b", "u1", Null), Partnership("c", "u2", Null)>>, <<>>)
      [] kind = "remarried" /\ id = "b" ->
            Person("b", Null, Null, <<>>, <<Partnership("a", "u1", Null)>>, <<>>)
      [] kind = "remarried" /\ id = "c" ->
            Person("c", Null, Null, <<>>, <<Partnership("a", "u2", Null)>>, <<>>)
      [] kind = "twice" /\ id = "a" ->
            Person("a", Null, Null, <<>>,
                   <<Partnership("b", "u1", Null), Partnership("b", "u2", Null)>>, <<"c">>)
      [] kind = "twice" /\ id = "b" ->
            Person("b", Null, Null, <<>>,
                   <<Partnership("a", "u1", Null), Partnership("a", "u2", Null)>>, <<"c">>)
      [] kind = "twice" /\ id = "c" -> Person("c", Null, Null, <<"a", "b">>, <<>>, <<>>)
      [] kind = "cycle" /\ id = "a" -> Person("a", Null, Null, <<"c">>, <<>>, <<"b">>)
      [] kind = "cycle" /\ id = "b" -> Person("b", Null, Null, <<"a">>, <<>>, <<"c">>)
      [] kind = "cycle" /\ id = "c" -> Person("c", Null, Null, <<"b">>, <<>>, <<"a">>)
      [] kind = "shared" /\ id = "a" ->
            Person("a", Null, Null, <<>>, <<Partnership("b", "u1", Null)>>, <<>>)
      [] kind = "shared" /\ id = "b" ->
            Person("b", Null, Null, <<>>, <<Partnership("a", "u1", Null)>>, <<>>)
      [] kind = "shared" /\ id = "c" ->
            Person("c", Null, Null, <<>>, <<Partnership("a", "u1", Null)>>, <<>>)

\* a file edited by hand: under the key b it holds the record of a person d,
\* child of a
MisfiledPerson(key) ==
    CASE key = "a" -> Person("a", Null, Null, <<>>, <<>>, <<"b">>)
      [] key = "b" -> Person("d", Null, Null, <<"a">>, <<>>, <<>>)
      [] key = "c" -> Person("c", Null, Null, <<>>, <<>>, <<>>)

\* a file edited by hand: a and b are married, and under the key c the file
\* holds the record of their child d
MisfiledChild(key) ==
    CASE key = "a" ->
            Person("a", Null, Null, <<>>, <<Partnership("b", "u1", Null)>>, <<"c", "d">>)
      [] key = "b" ->
            Person("b", Null, Null, <<>>, <<Partnership("a", "u1", Null)>>, <<"d">>)
      [] key = "c" -> Person("d", Null, Null, <<"a", "b">>, <<>>, <<>>)

LayoutKinds == {"chain", "remarried", "twice", "cycle", "shared"}

LayoutRecord(kind, key) ==
    IF kind \in ImportKinds THEN StoredAs(key, ImportPerson(kind, key))
    ELSE IF kind = "fork" THEN StoredAs(key, SiblingPerson(key))
    ELSE IF kind = "misfiled" THEN StoredAs(key, MisfiledPerson(key))
    ELSE IF kind = "misfiledChild" THEN StoredAs(key, MisfiledChild(key))
    ELSE StoredAs(key, LayoutPerson(kind, key))

\* the graphs that are laid out
LayoutGraphs ==
    { [rootPersonId |-> r,
       people |-> [i \in 1..Len(order) |-> LayoutRecord(kind, order[i])]] :
        r \in {NoId, "a", "c"}, order \in ImportOrders,
        kind \in ImportKinds \cup LayoutKinds \cup {"fork", "misfiled", "misfiledChild"} }

-----------------------------------------------------------------------------
(* The store as a state machine: `tree` is the snapshot held by            *)
(* useReducer, `action` the action dispatched last and `prev` the snapshot *)
(* it was applied to.  Every action takes the number of dispatches the     *)
(* specification explores.  `dangling` records that some UPSERT_PERSON     *)
(* payload named a person that was neither in the graph nor the payload's  *)
(* own id.  `result` is what the function called last returned.           *)
(* `unionLog` is the log of the partnerships made: the union identifiers   *)
(* used, the two persons each has linked, whether one of them has been     *)
(* deleted since, and whether an upsert has replaced a person of the       *)
(* graph.                                                                  *)

NoAction == [type |-> "INIT"]

NoResult == <<>>

\* useRef<number | null>(null): the handles of setTimeout are positive
NoTimer == 0

NothingLinked == [unions |-> {}, replaced |-> FALSE]

NamesAbsentPerson(state, act) ==
    /\ act.type = "UPSERT_PERSON"
    /\ ~(Refs(act.payload) \subseteq Keys(state.people) \cup {act.payload.id})

Init ==
    /\ tree = EMPTY_TREE
    /\ prev = EMPTY_TREE
    /\ action = NoAction
    /\ steps = 0
    /\ dangling = FALSE
    /\ result = NoResult
    /\ unionLog = NothingLinked
    /\ hook = [timeoutRef |-> NoTimer, timers |-> {}, now |-> 0,
               calls |-> <<>>, ran |-> <<>>, mounted |-> TRUE]
    /\ app = [trees |-> <<>>, currentTreeId |-> NoId,
              hasLoadedFromStorage |-> FALSE, updaters |-> <<>>, origin |-> NoId]

Reduce(act) ==
    /\ tree' = treeReducer(tree, act)
    /\ prev' = tree
    /\ action' = act
    /\ steps' = steps + 1
    /\ dangling' = (dangling \/ NamesAbsentPerson(tree, act))
    /\ result' = result
    /\ UNCHANGED <<hook, app>>

Dispatch(act) ==
    /\ Reduce(act)
    /\ unionLog' = unionLog

\* App.tsx dispatches SET_TREE with the stored graph once it has loaded.
\* SET_TREE returns its payload whatever the state, so a graph loaded later
\* leads to the states that the same graph loaded first leads to: the model
\* loads first.
SetTree ==
    /\ action = NoAction
    /\ \E g \in ImportGraphs : Dispatch([type |-> "SET_TREE", payload |-> g])

UpsertPerson(limit) ==
    /\ steps < limit
    /\ \E person \in EdgeFreePersons \cup EdgePersons :
          Dispatch([type |-> "UPSERT_PERSON", payload |-> person])

\* the payload has no edges
UpsertEdgeFreePerson(limit) ==
    /\ steps < limit
    /\ \E person \in EdgeFreePersons :
          Dispatch([type |-> "UPSERT_PERSON", payload |-> person])

LinkParentChild(limit) ==
    /\ steps < limit
    /\ \E parentId \in PersonIds, childId \in PersonIds :
          Dispatch([type |-> "LINK_PARENT_CHILD",
                    payload |-> [parentId |-> parentId, childId |-> childId]])

LinkSpouse(limit) ==
    /\ steps < limit
    /\ \E personId \in PersonIds, spouseId \in PersonIds,
          marriageDate \in MarriageDates, unionId \in UnionIds :
          Dispatch([type |-> "LINK_SPOUSE",
                    payload |-> [personId |-> personId, spouseId |-> spouseId,
                                 marriageDate |-> marriageDate, unionId |-> unionId]])

SetRootPerson(limit) ==
    /\ steps < limit
    /\ \E id \in PersonIds \cup {NoId} :
          Dispatch([type |-> "SET_ROOT_PERSON", payload |-> id])

DeletePerson(limit) ==
    /\ steps < limit
    /\ \E personId \in PersonIds :
          Dispatch([type |-> "DELETE_PERSON", payload |-> [personId |-> personId]])

ReassignParents(limit) ==
    /\ steps < limit
    /\ \E childId \in PersonIds, parentIds \in SeqsUpTo(PersonIds, MaxParentIds) :
          Dispatch([type |-> "REASSIGN_PARENTS",
                    payload |-> [childId |-> childId, parentIds |-> parentIds]])

\* the store on any graph: a graph is loaded, then actions are dispatched
Next ==
    \/ SetTree
    \/ UpsertPerson(MaxSteps)
    \/ LinkParentChild(MaxSteps)
    \/ LinkSpouse(MaxSteps)
    \/ SetRootPerson(MaxSteps)
    \/ DeletePerson(MaxSteps)
    \/ ReassignParents(MaxSteps)

Spec == Init /\ [][Next]_vars

\* the store from the empty graph, by its six mutations
NextStore ==
    \/ UpsertPerson(MaxStoreSteps)
    \/ LinkParentChild(MaxStoreSteps)
    \/ LinkSpouse(MaxStoreSteps)
    \/ SetRootPerson(MaxStoreSteps)
    \/ DeletePerson(MaxStoreSteps)
    \/ ReassignParents(MaxStoreSteps)

SpecStore == Init /\ [][NextStore]_vars

\* from the empty graph: persons without edges, links, deletions, reassignments
NextKinship ==
    \/ UpsertEdgeFreePerson(MaxStoreSteps)
    \/ LinkParentChild(MaxStoreSteps)
    \/ LinkSpouse(MaxStoreSteps)
    \/ DeletePerson(MaxStoreSteps)
    \/ ReassignParents(MaxStoreSteps)

SpecKinship == Init /\ [][NextKinship]_vars

\* from the empty graph: persons without edges, partnerships, deletions
NextUnions ==
    \/ UpsertEdgeFreePerson(MaxStoreSteps)
    \/ LinkSpouse(MaxStoreSteps)
    \/ DeletePerson(MaxStoreSteps)

SpecUnions == Init /\ [][NextUnions]_vars

\* a graph on which the helpers are called is loaded
SetQueryTree ==
    /\ action = NoAction
    /\ \E g \in QueryGraphs : Dispatch([type |-> "SET_TREE", payload |-> g])

\* ParentSelectorModal asks whether a chosen parent descends from the child
CallIsDescendant ==
    /\ UNCHANGED <<tree, prev, steps, dangling, unionLog, hook, app>>
    /\ \E ancestorId \in PersonIds, possibleDescendantId \in PersonIds :
          /\ action' = [type |-> "isDescendant",
                        payload |-> [ancestorId |-> ancestorId,
                                     possibleDescendantId |-> possibleDescendantId]]
          /\ result' = isDescendant(tree, ancestorId, possibleDescendantId)

\* App asks for the parents of a child added from a person's menu
CallResolveDefaultPartnerIds ==
    /\ UNCHANGED <<tree, prev, steps, dangling, unionLog, hook, app>>
    /\ \E personId \in PersonIds :
          /\ action' = [type |-> "resolveDefaultPartnerIds",
                        payload |-> [personId |-> personId]]
          /\ result' = resolveDefaultPartnerIds(tree, personId)

\* the query helpers on a loaded graph
NextHelpers ==
    \/ SetQueryTree
    \/ CallIsDescendant
    \/ CallResolveDefaultPartnerIds

SpecHelpers == Init /\ [][NextHelpers]_vars

\* a graph that is drawn is loaded
SetLayoutTree ==
    /\ action = NoAction
    /\ \E g \in LayoutGraphs : Dispatch([type |-> "SET_TREE", payload |-> g])

\* GenealogyTreeView lays the graph out for the screen
RenderTree ==
    /\ UNCHANGED <<tree, prev, steps, dangling, unionLog, hook, app>>
    /\ action' = [type |-> "computeLayout"]
    /\ result' = computeLayout(tree)

\* renderTreeToSvg lays the graph out for the export
ExportSvg ==
    /\ UNCHANGED <<tree, prev, steps, dangling, unionLog, hook, app>>
    /\ action' = [type |-> "computeTreeLayout"]
    /\ result' = computeTreeLayout(tree)

\* the layout of a loaded graph
NextLayout ==
    \/ SetLayoutTree
    \/ RenderTree
    \/ ExportSvg

SpecLayout == Init /\ [][NextLayout]_vars

\* a person without dates and without edges is added, as the editor adds one
UpsertPlainPerson(limit) ==
    /\ steps < limit
    /\ \E id \in PersonIds :
          Dispatch([type |-> "UPSERT_PERSON",
                    payload |-> Person(id, Null, Null, <<>>, <<>>, <<>>)])

\* two persons are linked as spouses, without a marriage date
LinkSpouseUndated(limit) ==
    /\ steps < limit
    /\ \E personId \in PersonIds, spouseId \in PersonIds, unionId \in UnionIds :
          Dispatch([type |-> "LINK_SPOUSE",
                    payload |-> [personId |-> personId, spouseId |-> spouseId,
                                 marriageDate |-> Null, unionId |-> unionId]])

\* the store from the empty graph, and the layout of the graph it holds
NextDraw ==
    \/ UpsertPlainPerson(MaxDrawSteps)
    \/ LinkParentChild(MaxDrawSteps)
    \/ LinkSpouseUndated(MaxDrawSteps)
    \/ SetRootPerson(MaxDrawSteps)
    \/ DeletePerson(MaxDrawSteps)
    \/ ReassignParents(MaxDrawSteps)
    \/ ExportSvg

SpecDraw == Init /\ [][NextDraw]_vars

\* ParentSelectorModal: the chosen parents are applied when handleConfirm
\* accepts them
ConfirmParents(limit) ==
    /\ steps < limit
    /\ \E childId \in PersonIds, parentIds \in SeqsUpTo(PersonIds, MaxParentIds) :
          /\ handleConfirmAccepts(tree, childId, parentIds)
          /\ Dispatch([type |-> "REASSIGN_PARENTS",
                       payload |-> [childId |-> childId, parentIds |-> parentIds]])

\* parents are reassigned on a loaded graph, through the modal or directly
NextParents ==
    \/ SetQueryTree
    \/ ConfirmParents(MaxSteps)
    \/ ReassignParents(MaxSteps)

SpecParents == Init /\ [][NextParents]_vars

-----------------------------------------------------------------------------
(* Vocabulary of the properties.                                           *)

Has(state, id) == id \in Keys(state.people)

Parents(state, id) == Range(Lookup(state.people, id).parents)

Children(state, id) == Range(Lookup(state.people, id).children)

Spouses(state, id) == Lookup(state.people, id).spouses

\* the number of Partnerships of person id with union identifier u
UnionCount(state, id, u) ==
    Cardinality({i \in 1..Len(Spouses(state, id)) : Spouses(state, id)[i].unionId = u})

NoDuplicates(s) == \A i, j \in 1..Len(s) : i # j => s[i] # s[j]

\* the place of the first occurrence of x in s
FirstIndex(s, x) == CHOOSE i \in 1..Len(s) : s[i] = x /\ \A j \in 1..(i - 1) : s[j] # x

\* the first person of the mapping other than x, or null
FirstRemaining(state, x) ==
    LET rest == {i \in 1..Len(state.people) : state.people[i].id # x}
    IN  IF rest = {} THEN NoId
        ELSE state.people[CHOOSE i \in rest : \A j \in rest : i <= j].id

IsLinkParentChild == action.type = "LINK_PARENT_CHILD"

IsLinkSpouse == action.type = "LINK_SPOUSE"

IsDeletePerson == action.type = "DELETE_PERSON"

IsReassignParents == action.type = "REASSIGN_PARENTS"

IsUpsertPerson == action.type = "UPSERT_PERSON"

-----------------------------------------------------------------------------
(* C1 *)

-----------------------------------------------------------------------------
(* C2 *)

\* C2: after DeletePerson(x) on a graph that contains x, x is no key of the
\* people mapping and no remaining person's parents, children or Partnership
\* spouseId equals x.
C2_DeletionCascade ==
    (IsDeletePerson /\ Has(prev, action.payload.personId)) =>
        LET x == action.payload.personId
        IN  /\ ~Has(tree, x)
            /\ \A i \in 1..Len(tree.people) : x \notin Refs(tree.people[i])

\* a deleted person to whom other persons referred in all three ways
C2_Witness ==
    /\ IsDeletePerson
    /\ Has(prev, action.payload.personId)
    /\ \E i, j, k \in 1..Len(prev.people) :
          /\ prev.people[i].id # action.payload.personId
          /\ prev.people[j].id # action.payload.personId
          /\ prev.people[k].id # action.payload.personId
          /\ action.payload.personId \in Range(prev.people[i].parents)
          /\ action.payload.personId \in Range(prev.people[j].children)
          /\ \E n \in 1..Len(prev.people[k].spouses) :
                prev.people[k].spouses[n].spouseId = action.payload.personId
    /\ Len(tree.people) = Len(prev.people) - 1

-----------------------------------------------------------------------------
(* C3 *)

-----------------------------------------------------------------------------
(* C4 *)

\* s holds the ids of the list ids that exist in state and differ from c, each
\* once, in the order of their first occurrence in ids
IsNewParentList(s, ids, state, c) ==
    /\ Range(s) = {x \in Range(ids) : x # c /\ Has(state, x)}
    /\ NoDuplicates(s)
    /\ \A i, j \in 1..Len(s) : i < j => FirstIndex(ids, s[i]) < FirstIndex(ids, s[j])

\* C4 as stated: ReassignParents(c, ids) on an existing c sets c.parents to the
\* existing ids of the list other than c, de-duplicated in input order; every
\* person of that set lists c in children and every other person does not.
C4_ReassignEveryOther ==
    (IsReassignParents /\ Has(prev, action.payload.childId)) =>
        LET c == action.payload.childId
            new == Lookup(tree.people, c).parents
        IN  /\ IsNewParentList(new, action.payload.parentIds, prev, c)
            /\ \A q \in Keys(tree.people) :
                  c \in Children(tree, q) <=> q \in Range(new)

\* C4 amended: as stated, for every other person apart from c itself; c's own
\* children list is only de-duplicated, so c still lists c if it did before.
C4_Reassign ==
    (IsReassignParents /\ Has(prev, action.payload.childId)) =>
        LET c == action.payload.childId
            new == Lookup(tree.people, c).parents
        IN  /\ IsNewParentList(new, action.payload.parentIds, prev, c)
            /\ \A q \in Keys(tree.people) \ {c} :
                  c \in Children(tree, q) <=> q \in Range(new)
            /\ Children(tree, c) = Children(prev, c)
            /\ Keys(tree.people) = Keys(prev.people)

\* a reassignment that drops a former parent, adds a new one, and whose list
\* holds the child itself, a repeated id and an id that is not in the graph
C4_Witness ==
    /\ IsReassignParents
    /\ Has(prev, action.payload.childId)
    /\ \E old \in Keys(prev.people) \ {action.payload.childId} :
          /\ action.payload.childId \in Children(prev, old)
          /\ old \in Parents(prev, action.payload.childId)
          /\ action.payload.childId \notin Children(tree, old)
    /\ \E p \in Parents(tree, action.payload.childId) :
          /\ p \notin Parents(prev, action.payload.childId)
          /\ action.payload.childId \notin Children(prev, p)
    /\ Len(action.payload.parentIds) > Len(Lookup(tree.people, action.payload.childId).parents)

-----------------------------------------------------------------------------
(* C5 *)

\* the person identifiers in the payload of an action
PayloadIds(act) ==
    CASE act.type = "SET_TREE" ->
            ({act.payload.rootPersonId} \ {NoId}) \cup Keys(act.payload.people)
            \cup UNION {Refs(act.payload.people[i]) : i \in 1..Len(act.payload.people)}
      [] act.type = "UPSERT_PERSON" -> {act.payload.id} \cup Refs(act.payload)
      [] act.type = "LINK_PARENT_CHILD" -> {act.payload.parentId, act.payload.childId}
      [] act.type = "LINK_SPOUSE" -> {act.payload.personId, act.payload.spouseId}
      [] act.type = "SET_ROOT_PERSON" -> {act.payload} \ {NoId}
      [] act.type = "DELETE_PERSON" -> {act.payload.personId}
      [] act.type = "REASSIGN_PARENTS" ->
            {act.payload.childId} \cup Range(act.payload.parentIds)
      [] OTHER -> {}

\* C5 as stated: every action, of each of the seven kinds, whose payload names
\* a person identifier that is not in the graph returns the snapshot unchanged.
C5_AbsentIdNoOpSevenActions ==
    ~(PayloadIds(action) \subseteq Keys(prev.people)) => tree = prev

\* C5 amended: LinkParentChild and LinkSpouse with an absent id, DeletePerson
\* of an absent id and ReassignParents of an absent child return the snapshot
\* unchanged (SetRootPerson, UpsertPerson and ReplaceGraph do not look the id
\* up, and ReassignParents drops absent parent ids and applies the rest).
C5_AbsentIdNoOp ==
    /\ (action.type \in {"LINK_PARENT_CHILD", "LINK_SPOUSE", "DELETE_PERSON"}
        /\ ~(PayloadIds(action) \subseteq Keys(prev.people))) => tree = prev
    /\ (IsReassignParents /\ ~Has(prev, action.payload.childId)) => tree = prev

\* a graph with unsanitized records is returned as it is by the deletion of
\* an absent person
C5_Witness ==
    /\ IsDeletePerson
    /\ ~Has(prev, action.payload.personId)
    /\ \E i \in 1..Len(prev.people) :
          /\ action.payload.personId \in Refs(prev.people[i])
          /\ ~NoDuplicates(prev.people[i].parents)
    /\ tree = prev

-----------------------------------------------------------------------------
(* C6 *)

-----------------------------------------------------------------------------
(* C7 *)

\* C7: from the empty graph, after any sequence of UpsertPerson (of persons
\* without edges), LinkParentChild, LinkSpouse, DeletePerson and
\* ReassignParents, no person's parents or children list holds the person's
\* own id.
C7_NoSelfParentOrChild ==
    \A id \in Keys(tree.people) :
        id \notin Parents(tree, id) /\ id \notin Children(tree, id)

-----------------------------------------------------------------------------
(* C8 *)

UnionIdsIn(state) ==
    UNION {{state.people[i].spouses[n].unionId : n \in 1..Len(state.people[i].spouses)} :
              i \in 1..Len(state.people)}

Holders(state, u) == {id \in Keys(state.people) : UnionCount(state, id, u) > 0}

\* C8: from the empty graph, after any sequence of UpsertPerson (of persons
\* without edges), LinkSpouse and DeletePerson, every union identifier in a
\* Partnership is in the Partnership lists of exactly two distinct persons,
\* whose entries reference each other.
C8_UnionHasTwoPartners ==
    \A u \in UnionIdsIn(tree) :
        /\ Cardinality(Holders(tree, u)) = 2
        /\ \A x, y \in Holders(tree, u) :
              x # y => \A i \in 1..Len(Spouses(tree, x)) :
                          Spouses(tree, x)[i].unionId = u => Spouses(tree, x)[i].spouseId = y

-----------------------------------------------------------------------------
(* C9 *)

\* C9: DeletePerson(x) on a graph containing x: if x was the root, the new
\* root is the first remaining person in mapping order, or null if nobody
\* remains; if x was not the root and a root was set, the root is unchanged;
\* if no root was set, the root becomes the first remaining person (or null).
C9_RootAfterDelete ==
    (IsDeletePerson /\ Has(prev, action.payload.personId)) =>
        LET x == action.payload.personId
        IN  /\ prev.rootPersonId = x => tree.rootPersonId = FirstRemaining(prev, x)
            /\ (prev.rootPersonId # x /\ prev.rootPersonId # NoId) =>
                  tree.rootPersonId = prev.rootPersonId
            /\ prev.rootPersonId = NoId => tree.rootPersonId = FirstRemaining(prev, x)

\* the root is deleted, two persons remain, and the one promoted is the first
\* of them in the mapping
C9_Witness ==
    /\ IsDeletePerson
    /\ prev.rootPersonId = action.payload.personId
    /\ Has(prev, action.payload.personId)
    /\ Len(tree.people) = 2
    /\ tree.rootPersonId = tree.people[1].id
    /\ prev.people[1].id = action.payload.personId

-----------------------------------------------------------------------------
(* C10 *)

\* a date field as normalizeDateValue leaves it: absent, or a non-empty string
\* without white space at either end
IsNormalizedDate(value) ==
    \/ value = Null
    \/ /\ value # <<>>
       /\ ~IsSpace(value[1])
       /\ ~IsSpace(value[Len(value)])

IsSanitized(person) ==
    /\ IsNormalizedDate(person.birthDate)
    /\ IsNormalizedDate(person.deathDate)
    /\ NoDuplicates(person.parents)
    /\ NoDuplicates(person.children)
    /\ \A i, j \in 1..Len(person.spouses) :
          i # j => person.spouses[i].unionId # person.spouses[j].unionId

\* the keys whose records the last action wrote
Written ==
    CASE action.type = "UPSERT_PERSON" -> {action.payload.id}
      [] IsLinkParentChild /\ PayloadIds(action) \subseteq Keys(prev.people) ->
            PayloadIds(action)
      [] IsLinkSpouse /\ PayloadIds(action) \subseteq Keys(prev.people) ->
            PayloadIds(action)
      [] IsDeletePerson /\ Has(prev, action.payload.personId) -> Keys(tree.people)
      [] IsReassignParents /\ Has(prev, action.payload.childId) -> Keys(tree.people)
      [] OTHER -> {}

\* C10: every Person record that UpsertPerson, LinkParentChild, LinkSpouse,
\* DeletePerson or ReassignParents writes, on any input snapshot (an
\* unsanitized one adopted through ReplaceGraph included), is sanitized: both
\* dates normalized, parents and children without duplicates, at most one
\* Partnership per union identifier.
C10_WrittenRecordsSanitized ==
    \A id \in Written : IsSanitized(Lookup(tree.people, id))

-----------------------------------------------------------------------------
(* C11 *)

\* C11: UpsertPerson(person) changes only the entry at person.id: the root
\* pointer is the same in the input and output snapshots, every other person
\* has the same record at the same place of the mapping, and the keys are
\* those of the input and person.id.
C11_UpsertFrame ==
    IsUpsertPerson =>
        /\ tree.rootPersonId = prev.rootPersonId
        /\ Keys(tree.people) = Keys(prev.people) \cup {action.payload.id}
        /\ Len(tree.people) >= Len(prev.people)
        /\ \A i \in 1..Len(prev.people) :
              prev.people[i].id # action.payload.id => tree.people[i] = prev.people[i]

\* a person is upserted whose payload names another person of the graph as
\* parent, spouse and child, while that person's record names nobody
C11_Witness ==
    /\ IsUpsertPerson
    /\ \E o \in Keys(prev.people) \ {action.payload.id} :
          /\ o \in Range(action.payload.parents)
          /\ o \in Range(action.payload.children)
          /\ Refs(Lookup(prev.people, o)) = {}
          /\ Lookup(tree.people, o) = Lookup(prev.people, o)
    /\ Lookup(tree.people, action.payload.id).children # action.payload.children

-----------------------------------------------------------------------------
(* C12, C13 *)

IsDescendantCall == action.type = "isDescendant"

RECURSIVE ChildClosure(_, _)
ChildClosure(state, ids) ==
    LET next == ids \cup UNION {Children(state, x) : x \in ids \cap Keys(state.people)}
    IN  IF next = ids THEN ids ELSE ChildClosure(state, next)

\* the ids reached from id by one or more children links
Descendants(state, id) ==
    IF Has(state, id) THEN ChildClosure(state, Children(state, id)) ELSE {}

\* C12: for every graph and all ids A and B, isDescendant(graph, A, B) returns
\* true if and only if B is reached from A by one or more children links; it
\* returns false for siblings and for unrelated persons.
C12_IsDescendantIffReachable ==
    IsDescendantCall =>
        (result.value <=>
            action.payload.possibleDescendantId
                \in Descendants(tree, action.payload.ancestorId))

\* true is returned for a grandchild that is not a child
C12_Witness ==
    /\ IsDescendantCall
    /\ Has(tree, action.payload.ancestorId)
    /\ action.payload.possibleDescendantId \notin Children(tree, action.payload.ancestorId)
    /\ \E x \in Children(tree, action.payload.ancestorId) \cap Keys(tree.people) :
          action.payload.possibleDescendantId \in Children(tree, x)
    /\ result.value

\* C13: isDescendant terminates for every graph, including graphs whose
\* children links contain a cycle or name ids that are not in the graph.
C13_IsDescendantTerminates ==
    IsDescendantCall => result.halted

\* the ancestor's descendants hold a cycle and an id that is not in the graph,
\* and the person asked about is none of them: the queue runs empty
C13_Witness ==
    /\ IsDescendantCall
    /\ \E x \in Descendants(tree, action.payload.ancestorId) : x \in Descendants(tree, x)
    /\ \E x \in Descendants(tree, action.payload.ancestorId) : ~Has(tree, x)
    /\ Has(tree, action.payload.possibleDescendantId)
    /\ action.payload.possibleDescendantId \notin Descendants(tree, action.payload.ancestorId)
    /\ result.halted /\ ~result.value

-----------------------------------------------------------------------------
(* C14 *)

IsResolveDefaultPartnerIdsCall == action.type = "resolveDefaultPartnerIds"

\* C14 as stated: resolveDefaultPartnerIds(graph, personId) returns [personId]
\* when the person holds zero or more than one Partnership and
\* [personId, soleSpouseId] whenever the person holds exactly one.
C14_DefaultPartnersWheneverOne ==
    (IsResolveDefaultPartnerIdsCall /\ Has(tree, action.payload.personId)) =>
        LET personId == action.payload.personId
            spouses == Spouses(tree, personId)
        IN  /\ Len(spouses) # 1 => result = <<personId>>
            /\ Len(spouses) = 1 => result = <<personId, spouses[1].spouseId>>

\* C14 amended: it returns [personId, soleSpouseId] when the person holds
\* exactly one Partnership and that spouse is in the graph, [personId] when the
\* person holds zero or more than one Partnership or the sole spouse is not in
\* the graph, and the empty list when the person is not in the graph.
C14_DefaultPartners ==
    IsResolveDefaultPartnerIdsCall =>
        LET personId == action.payload.personId
        IN  /\ ~Has(tree, personId) => result = <<>>
            /\ Has(tree, personId) =>
                  LET spouses == Spouses(tree, personId)
                  IN  /\ Len(spouses) # 1 => result = <<personId>>
                      /\ (Len(spouses) = 1 /\ Has(tree, spouses[1].spouseId)) =>
                            result = <<personId, spouses[1].spouseId>>
                      /\ (Len(spouses) = 1 /\ ~Has(tree, spouses[1].spouseId)) =>
                            result = <<personId>>

\* the person's only Partnership names a spouse that is in the graph
C14_Witness ==
    /\ IsResolveDefaultPartnerIdsCall
    /\ Has(tree, action.payload.personId)
    /\ Len(Spouses(tree, action.payload.personId)) = 1
    /\ Has(tree, Spouses(tree, action.payload.personId)[1].spouseId)
    /\ Spouses(tree, action.payload.personId)[1].spouseId # action.payload.personId
    /\ Len(result) = 2

-----------------------------------------------------------------------------
(* C15 *)

IsLayoutCall == action.type \in {"computeLayout", "computeTreeLayout"}

\* the ids reached from `ids` by children links, over the records the
\* mapping holds
RECURSIVE StoredChildClosure(_, _)
StoredChildClosure(state, ids) ==
    LET next == ids \cup UNION {Range(Stored(state, x).children) :
                                   x \in {y \in ids : IsStored(state, y)}}
    IN  IF next = ids THEN ids ELSE StoredChildClosure(state, next)

\* some person is its own descendant
HasChildCycle(state) ==
    \E k \in Range(StoredKeys(state)) :
        k \in StoredChildClosure(state, Range(Stored(state, k).children))

\* some parent, child or spouse id is the key of no record
HasDanglingId(state) ==
    \E i \in 1..Len(state.people) : ~(Refs(state.people[i]) \subseteq Range(StoredKeys(state)))

HasDanglingRoot(state) ==
    state.rootPersonId # NoId /\ ~IsStored(state, state.rootPersonId)

\* C15: the layout terminates and returns a result for every graph, also for
\* graphs with cyclic parent/child links, with Partnerships or parent/child
\* ids that name no person of the graph, and with a root pointer that names
\* no person of the graph.
C15_LayoutReturns ==
    IsLayoutCall =>
        /\ result.returned
        /\ result.width >= 0
        /\ result.height >= 0

\* a layout was returned for a graph that is cyclic, names absent persons and
\* has a root that is absent
C15_Witness ==
    /\ IsLayoutCall
    /\ HasChildCycle(tree)
    /\ HasDanglingId(tree)
    /\ HasDanglingRoot(tree)
    /\ result.returned
    /\ Len(result.personNodes) > 1

-----------------------------------------------------------------------------
(* C16 *)

\* a person of the graph: the record the mapping holds under the person's id
IsPerson(state, id) == IsStored(state, id) /\ Stored(state, id).id = id

\* the pairs (holder, spouse) of the Partnerships with union identifier u
UnionEntries(state, u) ==
    UNION { { <<state.people[i].id, sp.spouseId>> :
                sp \in {x \in Range(state.people[i].spouses) : x.unionId = u} } :
              i \in 1..Len(state.people) }

AllUnionIds(state) ==
    UNION { {sp.unionId : sp \in Range(state.people[i].spouses)} :
              i \in 1..Len(state.people) }

\* u is the union of the two persons A and B, and their only one
IsUnionOf(state, u, A, B) ==
    /\ A # B
    /\ IsPerson(state, A)
    /\ IsPerson(state, B)
    /\ UnionEntries(state, u) = {<<A, B>>, <<B, A>>}
    /\ \A v \in AllUnionIds(state) \ {u} :
          UnionEntries(state, v) \cap {<<A, B>>, <<B, A>>} = {}

\* the persons whose parents list holds both A and B
ChildrenOfBoth(state, A, B) ==
    { id \in Range(StoredKeys(state)) :
        /\ IsPerson(state, id)
        /\ A \in Range(Stored(state, id).parents)
        /\ B \in Range(Stored(state, id).parents) }

\* how many edges of the layout carry the id
EdgeCount(layout, id) ==
    Cardinality({i \in 1..Len(layout.edges) : layout.edges[i].id = id})

\* the node of the person held under the key
NodeOf(layout, key) ==
    layout.personNodes[CHOOSE i \in 1..Len(layout.personNodes) :
                          KeyOf(layout.personNodes[i].person) = key]

\* C16: for every union whose two partners A and B both exist in the graph and
\* are linked by exactly one union id, the layout holds exactly one union node
\* for that id, exactly two partner edges (from A and from B to the union),
\* exactly one union-to-child edge for each person whose parents list holds
\* both A and B (and none for anybody else), and no direct edge from A or
\* from B to such a child.
C16_UnionDrawnOnce ==
    IsLayoutCall =>
        \A u \in AllUnionIds(tree), A \in PersonIds, B \in PersonIds :
            IsUnionOf(tree, u, A, B) =>
                LET unions == SelectSeq(result.unionNodes, LAMBDA node : node.id = u)
                    partnerEdges == SelectSeq(result.edges, LAMBDA edge :
                                        edge.id[1] = u /\ edge.id[2] = "partner")
                    childEdges == SelectSeq(result.edges, LAMBDA edge :
                                      edge.id[1] = u /\ edge.id[2] = "child")
                IN  /\ Len(unions) = 1
                    /\ Range(unions[1].partners) = {A, B}
                    /\ Len(partnerEdges) = 2
                    /\ {partnerEdges[1].from, partnerEdges[2].from}
                          = {CenterOf(NodeOf(result, A)), CenterOf(NodeOf(result, B))}
                    /\ \A i \in 1..2 :
                          partnerEdges[i].to =
                              [x |-> unions[1].x + UNION_NODE_SIZE \div 2,
                               y |-> unions[1].y + UNION_NODE_SIZE \div 2]
                    /\ \A c \in ChildrenOfBoth(tree, A, B) :
                          /\ EdgeCount(result, <<u, "child", c>>) = 1
                          /\ EdgeCount(result, <<"direct", A, c>>) = 0
                          /\ EdgeCount(result, <<"direct", B, c>>) = 0
                    /\ Len(childEdges) = Cardinality(ChildrenOfBoth(tree, A, B))

\* a married couple with a child that both list was drawn
C16_Witness ==
    /\ IsLayoutCall
    /\ \E u \in AllUnionIds(tree), A \in PersonIds, B \in PersonIds :
          /\ IsUnionOf(tree, u, A, B)
          /\ \E c \in ChildrenOfBoth(tree, A, B) :
                /\ c \in Range(Stored(tree, A).children)
                /\ EdgeCount(result, <<u, "child", c>>) = 1
          /\ \E i \in 1..Len(result.unionNodes) : result.unionNodes[i].id = u

-----------------------------------------------------------------------------
(* C17 *)

\* the person the traversal starts from (layout.ts:73)
LayoutRoot(state) ==
    IF state.rootPersonId # NoId THEN state.rootPersonId ELSE state.people[1].id

\* the parent/child links (parent, child) of the graph
ChildLinkPairs(state) ==
    UNION { {<<k, c>> : c \in Range(Stored(state, k).children)} :
              k \in Range(StoredKeys(state)) }

ParentLinkPairs(state) ==
    UNION { {<<p, k>> : p \in Range(Stored(state, k).parents)} :
              k \in Range(StoredKeys(state)) }

\* the keys reached from `ids` over parent/child links in either direction
RECURSIVE KinClosure(_, _)
KinClosure(state, ids) ==
    LET next == ids \cup UNION {Range(Stored(state, x).children)
                                   \cup Range(Stored(state, x).parents) :
                                   x \in {y \in ids : IsStored(state, y)}}
    IN  IF next = ids THEN ids ELSE KinClosure(state, next)

\* No Partnerships; parent/child links that are symmetric and form a forest
\* (no person twice in a list, no undirected cycle); every person connected
\* to the root.  A connected graph of n persons is a forest exactly when it
\* has n - 1 links.
IsRootedForest(state) ==
    /\ Len(state.people) > 0
    /\ NoDuplicates(StoredKeys(state))
    /\ \A i \in 1..Len(state.people) :
          /\ state.people[i].spouses = <<>>
          /\ NoDuplicates(state.people[i].children)
          /\ NoDuplicates(state.people[i].parents)
    /\ ChildLinkPairs(state) = ParentLinkPairs(state)
    /\ IsStored(state, LayoutRoot(state))
    /\ KinClosure(state, {LayoutRoot(state)}) = Range(StoredKeys(state))
    /\ Cardinality(ChildLinkPairs(state)) = Len(state.people) - 1

\* C17: for every graph with no Partnerships whose parent/child links are
\* symmetric, form a forest and connect every person to the root, the layout
\* puts the root at depth 0, puts every child in the row directly below its
\* parent (depth = parent's depth + 1, strictly larger y, no row in between),
\* emits exactly one direct edge per parent/child link and nothing else, and
\* emits no union node.
C17_ForestRows ==
    (IsLayoutCall /\ IsRootedForest(tree)) =>
        LET depthMap == computePlacementMaps(tree, LayoutRoot(tree)).depthMap
        IN  /\ MapGet(depthMap, LayoutRoot(tree)) = 0
            /\ \A link \in ChildLinkPairs(tree) :
                  /\ MapGet(depthMap, link[2]) = MapGet(depthMap, link[1]) + 1
                  /\ NodeOf(result, link[2]).y > NodeOf(result, link[1]).y
                  /\ \A i \in 1..Len(result.personNodes) :
                        ~(/\ result.personNodes[i].y > NodeOf(result, link[1]).y
                          /\ result.personNodes[i].y < NodeOf(result, link[2]).y)
                  /\ EdgeCount(result, <<"direct", link[1], link[2]>>) = 1
            /\ Len(result.edges) = Cardinality(ChildLinkPairs(tree))
            /\ Len(result.unionNodes) = 0

\* a forest of three generations was drawn whose root has a parent
C17_Witness ==
    /\ IsLayoutCall
    /\ IsRootedForest(tree)
    /\ Stored(tree, LayoutRoot(tree)).parents # <<>>
    /\ Cardinality(ChildLinkPairs(tree)) = 2
    /\ Len(result.edges) = 2
    /\ \E link \in ChildLinkPairs(tree) :
          NodeOf(result, link[2]).y > NodeOf(result, LayoutRoot(tree)).y

-----------------------------------------------------------------------------
(* C18 *)

\* C18: the layout of the empty graph (no people, root null) has no person
\* node, no union node, no edge, width 0 and height 0; every graph with at
\* least one person yields at least one person node and a positive width and
\* height.
C18_EmptyAndNonEmpty ==
    IsLayoutCall =>
        /\ tree = EMPTY_TREE =>
              /\ result.personNodes = <<>>
              /\ result.unionNodes = <<>>
              /\ result.edges = <<>>
              /\ result.width = 0
              /\ result.height = 0
        /\ Len(tree.people) > 0 =>
              /\ Len(result.personNodes) >= 1
              /\ result.width > 0
              /\ result.height > 0

\* a graph of one person was laid out
C18_Witness ==
    /\ IsLayoutCall
    /\ Len(tree.people) = 1
    /\ Len(result.personNodes) = 1
    /\ result.width > 0
    /\ result.height > 0

-----------------------------------------------------------------------------
(* C20 *)

\* C20: the layout the screen uses (computeLayout of GenealogyTreeView) and
\* the layout the export uses (computeTreeLayout of layout.ts) produce the same
\* person nodes, union nodes, edges, width and height for every graph.
C20_ScreenMatchesExport ==
    action.type = "computeLayout" =>
        LET exported == computeTreeLayout(tree)
        IN  /\ result.personNodes = exported.personNodes
            /\ result.unionNodes = exported.unionNodes
            /\ result.edges = exported.edges
            /\ result.width = exported.width
            /\ result.height = exported.height

-----------------------------------------------------------------------------
(* C21 *)

\* how many person nodes of the layout show the person
NodeCount(layout, id) ==
    Cardinality({i \in 1..Len(layout.personNodes) : layout.personNodes[i].person.id = id})

\* C21: for every graph reached from the empty graph through Store actions,
\* each person of the graph is in exactly one person node of the layout: no
\* person is omitted and the row pass never places a person twice.
C21_EachPersonOnce ==
    IsLayoutCall =>
        \A id \in Keys(tree.people) : NodeCount(result, id) = 1

-----------------------------------------------------------------------------
(* C22 *)

\* the ids reached from `ids` by parents links
RECURSIVE ParentClosure(_, _)
ParentClosure(state, ids) ==
    LET next == ids \cup UNION {Parents(state, x) : x \in ids \cap Keys(state.people)}
    IN  IF next = ids THEN ids ELSE ParentClosure(state, next)

\* A lists B as child exactly when B lists A as parent
IsKinSymmetric(state) == ChildLinkPairs(state) = ParentLinkPairs(state)

\* nobody is reached from itself over children links or over parents links
IsKinAcyclic(state) ==
    \A id \in Keys(state.people) :
        /\ id \notin Descendants(state, id)
        /\ id \notin ParentClosure(state, Parents(state, id))

\* C22: if the parent/child relation of a graph is symmetric and acyclic, a
\* ReassignParents(c, P) for which the caller's guard passes (c is not in P
\* and isDescendant(graph, c, p) is false for every p in P) yields a graph
\* whose parent/child relation is still acyclic; without the guard the Store
\* applies a reassignment that makes a descendant of c (a person of the graph
\* other than c) its parent, and c is then its own descendant.
C22_GuardKeepsAcyclic ==
    (IsReassignParents /\ Has(prev, action.payload.childId)) =>
        LET c == action.payload.childId
            P == action.payload.parentIds
        IN  /\ (/\ IsKinSymmetric(prev)
                /\ IsKinAcyclic(prev)
                /\ handleConfirmAccepts(prev, c, P)) => IsKinAcyclic(tree)
            /\ \A p \in Range(P) \cap Descendants(prev, c) \cap Keys(prev.people) :
                  p # c =>
                      /\ p \in Parents(tree, c)
                      /\ c \in Children(tree, p)
                      /\ c \in Descendants(tree, c)

\* the guard let through a reassignment that gave the child of a symmetric,
\* acyclic graph a new parent
C22_Witness ==
    /\ IsReassignParents
    /\ Has(prev, action.payload.childId)
    /\ IsKinSymmetric(prev)
    /\ IsKinAcyclic(prev)
    /\ ChildLinkPairs(prev) # {}
    /\ handleConfirmAccepts(prev, action.payload.childId, action.payload.parentIds)
    /\ Parents(tree, action.payload.childId) # {}
    /\ Parents(tree, action.payload.childId) # Parents(prev, action.payload.childId)
    /\ IsKinAcyclic(tree)

-----------------------------------------------------------------------------
(* C23 *)

\* for all persons A and B, A lists B as parent exactly when B lists A as
\* child, and nobody lists themselves
IsKinSymmetricAmongPersons(state) ==
    /\ \A A \in Keys(state.people), B \in Keys(state.people) :
          B \in Parents(state, A) <=> A \in Children(state, B)
    /\ \A A \in Keys(state.people) :
          A \notin Parents(state, A) \cup Children(state, A)

\* C23: DeletePerson and ReassignParents preserve parent/child symmetry: if
\* in the input graph, for all persons A and B, A lists B as parent exactly
\* when B lists A as child, and nobody lists themselves, then the same holds
\* in the output graph.
C23_SymmetryPreserved ==
    ((IsDeletePerson \/ IsReassignParents) /\ IsKinSymmetricAmongPersons(prev)) =>
        IsKinSymmetricAmongPersons(tree)

\* a child of a symmetric graph was given another parent
C23_Witness ==
    /\ IsReassignParents
    /\ IsKinSymmetricAmongPersons(prev)
    /\ Has(prev, action.payload.childId)
    /\ Parents(prev, action.payload.childId) # {}
    /\ Parents(tree, action.payload.childId) # {}
    /\ Parents(tree, action.payload.childId) \cap Parents(prev, action.payload.childId) = {}
    /\ IsKinSymmetricAmongPersons(tree)

-----------------------------------------------------------------------------
(* C24 *)

\* every id in a parents list, a children list or a Partnership spouseId is a
\* person of the graph
HasIntegrity(state) ==
    \A i \in 1..Len(state.people) : Refs(state.people[i]) \subseteq Keys(state.people)

\* C24: LinkParentChild, LinkSpouse, DeletePerson and ReassignParents each
\* preserve referential integrity: if every id in every person's parents,
\* children and Partnership spouseId refers to an existing person before the
\* action, the same is true after it.
C24_IntegrityPreserved ==
    ((IsLinkParentChild \/ IsLinkSpouse \/ IsDeletePerson \/ IsReassignParents)
        /\ HasIntegrity(prev)) => HasIntegrity(tree)

\* a person who is named by others is deleted from a graph without dangling
\* ids, and nobody names the person afterwards
C24_Witness ==
    /\ IsDeletePerson
    /\ HasIntegrity(prev)
    /\ Has(prev, action.payload.personId)
    /\ \E i \in 1..Len(prev.people) :
          /\ prev.people[i].id # action.payload.personId
          /\ action.payload.personId \in Refs(prev.people[i])
    /\ tree.people # <<>>
    /\ HasIntegrity(tree)

-----------------------------------------------------------------------------
(* C25 *)

-----------------------------------------------------------------------------
(* C26 *)

\* the root pointer is null or references a person of the graph
IsRootValid(state) == state.rootPersonId = NoId \/ Has(state, state.rootPersonId)

IsRootKeeping ==
    IsUpsertPerson \/ IsLinkParentChild \/ IsLinkSpouse \/ IsDeletePerson \/ IsReassignParents

\* C26 as stated: if the root pointer is null or references an existing
\* person, then after UpsertPerson, LinkParentChild, LinkSpouse, DeletePerson
\* or ReassignParents it is again null or references an existing person, and
\* after any DeletePerson it is null only if the graph became empty.
C26_RootValidAnyDelete ==
    (IsRootKeeping /\ IsRootValid(prev)) =>
        /\ IsRootValid(tree)
        /\ (IsDeletePerson /\ tree.rootPersonId = NoId) => tree.people = <<>>

\* C26 amended: the same, the second part for a DeletePerson of a person of
\* the graph.
C26_RootValid ==
    (IsRootKeeping /\ IsRootValid(prev)) =>
        /\ IsRootValid(tree)
        /\ (IsDeletePerson /\ Has(prev, action.payload.personId)
                /\ tree.rootPersonId = NoId) => tree.people = <<>>

\* the root person is deleted and another person of the graph is the root
\* afterwards
C26_Witness ==
    /\ IsDeletePerson
    /\ prev.rootPersonId # NoId
    /\ prev.rootPersonId = action.payload.personId
    /\ Has(prev, action.payload.personId)
    /\ tree.rootPersonId # NoId
    /\ Has(tree, tree.rootPersonId)

-----------------------------------------------------------------------------
(* C27 *)

\* C27: LinkParentChild is idempotent: for every graph and ids p and c, the
\* snapshot after LinkParentChild(p, c) is left as it is by a second
\* LinkParentChild(p, c).
C27_LinkParentChildIdempotent ==
    IsLinkParentChild => treeReducer(tree, action) = tree

\* a link between two persons of the graph has changed the graph, and the
\* same link again changes nothing
C27_Witness ==
    /\ IsLinkParentChild
    /\ Has(prev, action.payload.parentId)
    /\ Has(prev, action.payload.childId)
    /\ action.payload.parentId # action.payload.childId
    /\ tree # prev
    /\ action.payload.childId \in Children(tree, action.payload.parentId)
    /\ treeReducer(tree, action) = tree

-----------------------------------------------------------------------------
(* sanitizePerson on the persons a form or a file may supply                *)

SanitizePartnerships ==
    { Partnership(spouseId, unionId, marriageDate) :
        spouseId \in PersonIds \ {"a"}, unionId \in UnionIds, marriageDate \in MarriageDates }

\* sanitizePerson maps each field by itself: the persons vary the two id
\* lists together, the Partnership list, and the dates
SanitizeInputs ==
    { Person("a", Null, Null, parents, <<>>, children) :
        parents \in SeqsUpTo(PersonIds, MaxListLen),
        children \in SeqsUpTo(PersonIds, MaxListLen) }
    \cup { Person("a", d[1], d[2], <<"b">>, spouses, <<"c", "c">>) :
            d \in RawDatePairs, spouses \in SeqsUpTo(SanitizePartnerships, MaxListLen) }

\* every person the reducer writes goes through sanitizePerson; the function
\* is pure, so one call per behaviour shows all it does
CallSanitizePerson ==
    /\ action = NoAction
    /\ UNCHANGED <<tree, prev, steps, dangling, unionLog, hook, app>>
    /\ \E person \in SanitizeInputs :
          /\ action' = [type |-> "sanitizePerson", payload |-> person]
          /\ result' = sanitizePerson(person)

NextSanitize == CallSanitizePerson

SpecSanitize == Init /\ [][NextSanitize]_vars

-----------------------------------------------------------------------------
(* C28 *)

IsSanitizeCall == action.type = "sanitizePerson"

\* out holds each id of in once, in the order of the first occurrences in in
IsFirstSeenOrder(in, out) ==
    /\ Range(out) = Range(in)
    /\ NoDuplicates(out)
    /\ \A i, j \in 1..Len(out) :
          i < j => FirstIndex(in, out[i]) < FirstIndex(in, out[j])

\* the last entry of spouses with union id u
LastEntry(spouses, u) ==
    spouses[CHOOSE i \in 1..Len(spouses) :
                /\ spouses[i].unionId = u
                /\ \A j \in (i + 1)..Len(spouses) : spouses[j].unionId # u]

\* C28: sanitizing a person yields parents and children lists containing each
\* input id once in first-seen order, and a Partnership list with one entry
\* per union id, which carries all fields of the last input entry with that
\* id; sanitizing the sanitized person returns an equal person.
C28_SanitizePerson ==
    IsSanitizeCall =>
        LET in == action.payload
            out == result
            unionIds == {in.spouses[i].unionId : i \in 1..Len(in.spouses)}
        IN  /\ IsFirstSeenOrder(in.parents, out.parents)
            /\ IsFirstSeenOrder(in.children, out.children)
            /\ {out.spouses[i].unionId : i \in 1..Len(out.spouses)} = unionIds
            /\ \A u \in unionIds :
                  /\ Cardinality({i \in 1..Len(out.spouses) : out.spouses[i].unionId = u}) = 1
                  /\ \A i \in 1..Len(out.spouses) :
                        out.spouses[i].unionId = u => out.spouses[i] = LastEntry(in.spouses, u)
            /\ sanitizePerson(out) = out

\* a union id comes three times with different spouses, and the entry kept is
\* the last
C28_Witness ==
    /\ IsSanitizeCall
    /\ Len(action.payload.spouses) = 3
    /\ \A i \in 1..3 : action.payload.spouses[i].unionId = "u1"
    /\ action.payload.spouses[1].spouseId # action.payload.spouses[3].spouseId
    /\ result.spouses = <<action.payload.spouses[3]>>
    /\ result.children = <<"c">>

-----------------------------------------------------------------------------
(* Partnerships made under fresh union identifiers                          *)

\* a person without edges is upserted; the log notes when the id was taken
UpsertLoggedPerson(limit) ==
    /\ steps < limit
    /\ \E id \in PersonIds :
          /\ Reduce([type |-> "UPSERT_PERSON",
                     payload |-> Person(id, Null, Null, <<>>, <<>>, <<>>)])
          /\ unionLog' = [unionLog EXCEPT !.replaced = @ \/ id \in Keys(tree.people)]

\* two distinct persons of the graph are linked under a union id never used
LinkFreshSpouse(limit) ==
    /\ steps < limit
    /\ \E personId \in Keys(tree.people), spouseId \in Keys(tree.people),
          unionId \in UnionIds \ {entry.unionId : entry \in unionLog.unions} :
          /\ personId # spouseId
          /\ Reduce([type |-> "LINK_SPOUSE",
                     payload |-> [personId |-> personId, spouseId |-> spouseId,
                                  marriageDate |-> Null, unionId |-> unionId]])
          /\ unionLog' = [unionLog EXCEPT !.unions = @ \cup
                             {[unionId |-> unionId, partners |-> {personId, spouseId},
                               broken |-> FALSE]}]

\* a person is deleted; the unions of the person are broken from then on
DeleteLoggedPerson(limit) ==
    /\ steps < limit
    /\ \E personId \in PersonIds :
          /\ Reduce([type |-> "DELETE_PERSON", payload |-> [personId |-> personId]])
          /\ unionLog' = [unionLog EXCEPT !.unions =
                             {[entry EXCEPT !.broken = @ \/ (/\ personId \in entry.partners
                                                             /\ personId \in Keys(tree.people))] :
                                 entry \in @}]

NextPartners ==
    \/ UpsertLoggedPerson(MaxUnionSteps)
    \/ LinkFreshSpouse(MaxUnionSteps)
    \/ DeleteLoggedPerson(MaxUnionSteps)

SpecPartners == Init /\ [][NextPartners]_vars

-----------------------------------------------------------------------------
(* C29 *)

\* resolveUnionPartners returns the two linked persons of an unbroken union
\* and the empty list for a broken one
PartnersResolved ==
    \A entry \in unionLog.unions :
        LET partners == resolveUnionPartners(tree, entry.unionId)
        IN  IF entry.broken THEN partners = <<>>
            ELSE /\ Len(partners) = 2
                 /\ Range(partners) = entry.partners
                 /\ entry.partners \subseteq Keys(tree.people)

\* C29 as stated: in any graph built from the empty graph by UpsertPerson of
\* edge-free persons, LinkSpouse calls that each use a fresh union identifier
\* and two distinct existing persons, and DeletePerson,
\* resolveUnionPartners(graph, u) returns exactly the two linked persons while
\* both exist, and the empty list once either of them has been deleted.
C29_PartnersAnyUpsert == PartnersResolved

\* C29 amended: the same, when every UpsertPerson is of a person whose id is
\* not in the graph.
C29_Partners == ~unionLog.replaced => PartnersResolved

\* a union resolved to its two partners, one of them has been deleted, and
\* the union resolves to nobody
C29_Witness ==
    /\ ~unionLog.replaced
    /\ IsDeletePerson
    /\ \E entry \in unionLog.unions :
          /\ entry.broken
          /\ action.payload.personId \in entry.partners
          /\ Len(resolveUnionPartners(prev, entry.unionId)) = 2
          /\ Range(resolveUnionPartners(prev, entry.unionId)) = entry.partners
          /\ tree.people # <<>>
          /\ resolveUnionPartners(tree, entry.unionId) = <<>>

-----------------------------------------------------------------------------
(* C30 *)

\* some person holds a Partnership with union identifier u whose spouseId is
\* a person of the graph
HasDrawablePartnership(state, u) ==
    \E entry \in UnionEntries(state, u) : IsPerson(state, entry[1]) /\ IsPerson(state, entry[2])

UnionNodeCount(layout, u) ==
    Cardinality({i \in 1..Len(layout.unionNodes) : layout.unionNodes[i].id = u})

PartnerEdgeCount(layout, u) ==
    Cardinality({i \in 1..Len(layout.edges) :
                    layout.edges[i].id[1] = u /\ layout.edges[i].id[2] = "partner"})

\* C30: the layout emits a union node for union identifier u if and only if
\* some person holds a Partnership with unionId u whose spouseId is an
\* existing person, and never more than one union node for the same
\* identifier; a Partnership whose spouse is not in the graph yields no union
\* node and no partner edge.
C30_UnionNodeIffPartner ==
    IsLayoutCall =>
        \A u \in UnionIds :
            /\ UnionNodeCount(result, u) = (IF HasDrawablePartnership(tree, u) THEN 1 ELSE 0)
            /\ ~HasDrawablePartnership(tree, u) => PartnerEdgeCount(result, u) = 0

\* one union is drawn, and another, whose Partnership names a spouse that is
\* not in the graph, is not
C30_Witness ==
    /\ IsLayoutCall
    /\ \E u \in UnionIds, v \in UnionIds :
          /\ HasDrawablePartnership(tree, u)
          /\ UnionNodeCount(result, u) = 1
          /\ PartnerEdgeCount(result, u) = 2
          /\ UnionEntries(tree, v) # {}
          /\ \A entry \in UnionEntries(tree, v) : ~IsStored(tree, entry[2])
          /\ UnionNodeCount(result, v) = 0
          /\ PartnerEdgeCount(result, v) = 0

-----------------------------------------------------------------------------
(* C31 *)

\* the layout has a node under the id
IsPlaced(layout, id) ==
    \E i \in 1..Len(layout.personNodes) : KeyOf(layout.personNodes[i].person) = id

\* a direct edge from P to C is drawn
HasDirectEdge(layout, P, C) == EdgeCount(layout, <<"direct", P, C>>) > 0

\* a union in which P is a partner, and both of whose partners C lists as
\* parents, has an edge to C
HasUnionEdge(state, layout, P, C) ==
    \E i \in 1..Len(layout.unionNodes) :
        /\ P \in Range(layout.unionNodes[i].partners)
        /\ EdgeCount(layout, <<layout.unionNodes[i].id, "child", C>>) > 0
        /\ \E n \in 1..Len(state.people) :
              /\ state.people[n].id = C
              /\ Range(layout.unionNodes[i].partners) \subseteq Range(state.people[n].parents)

\* the pairs (P, C) with C in the children list of P and both placed
PlacedChildLinks(state, layout) ==
    { pair \in UNION { {<<state.people[i].id, c>> : c \in Range(state.people[i].children)} :
                          i \in 1..Len(state.people) } :
        IsPlaced(layout, pair[1]) /\ IsPlaced(layout, pair[2]) }

\* C31: for every parent P and every id C in P's children list where both are
\* placed, the layout draws the link in exactly one of two ways: a direct edge
\* from P to C, or a union-to-child edge of a union in which P is a partner
\* and C lists both partners as parents; never both and never neither.
C31_LinkDrawnOneWay ==
    IsLayoutCall =>
        \A pair \in PlacedChildLinks(tree, result) :
            HasDirectEdge(result, pair[1], pair[2])
                # HasUnionEdge(tree, result, pair[1], pair[2])

\* one layout draws a child under the union of its parents and another child
\* by a direct edge
C31_Witness ==
    /\ IsLayoutCall
    /\ \E viaUnion \in PlacedChildLinks(tree, result), direct \in PlacedChildLinks(tree, result) :
          /\ HasUnionEdge(tree, result, viaUnion[1], viaUnion[2])
          /\ ~HasDirectEdge(result, viaUnion[1], viaUnion[2])
          /\ HasDirectEdge(result, direct[1], direct[2])
          /\ ~HasUnionEdge(tree, result, direct[1], direct[2])

-----------------------------------------------------------------------------
(* computePlacementMaps on the graphs the layout is called with             *)

\* computeTreeLayout calls computePlacementMaps with the root, or the first
\* person of the mapping, once it has found the graph non-empty
CallComputePlacementMaps ==
    /\ Len(tree.people) > 0
    /\ UNCHANGED <<tree, prev, steps, dangling, unionLog, hook, app>>
    /\ LET rootId == IF tree.rootPersonId # NoId THEN tree.rootPersonId
                     ELSE tree.people[1].id
       IN  /\ action' = [type |-> "computePlacementMaps", payload |-> [rootId |-> rootId]]
           /\ result' = computePlacementMaps(tree, rootId)

NextPlacement ==
    \/ SetLayoutTree
    \/ CallComputePlacementMaps

SpecPlacement == Init /\ [][NextPlacement]_vars

-----------------------------------------------------------------------------
(* C32 *)

IsPlacementCall == action.type = "computePlacementMaps"

\* the ids a person names: children, parents, spouses
NamedBy(person) ==
    Range(person.children) \cup Range(person.parents)
    \cup {person.spouses[i].spouseId : i \in 1..Len(person.spouses)}

\* the ids reached from the start over children, parents and spouses of the
\* persons the mapping holds
RECURSIVE ReachedFrom(_, _)
ReachedFrom(state, ids) ==
    LET next == ids \cup UNION {NamedBy(Stored(state, x)) : x \in {y \in ids : IsStored(state, y)}}
    IN  IF next = ids THEN ids ELSE ReachedFrom(state, next)

\* what the depth changes by from a person to an id it names: children are
\* taken first, then parents, then spouses
DeltaTo(person, id) ==
    IF id \in Range(person.children) THEN 1
    ELSE IF id \in Range(person.parents) THEN -1
    ELSE 0

\* the reached person with the least order value among those that name id
FirstNaming(state, maps, reached, id) ==
    LET naming == {q \in reached : IsStored(state, q) /\ id \in NamedBy(Stored(state, q))}
    IN  CHOOSE q \in naming :
            \A r \in naming : MapGet(maps.orderMap, q) <= MapGet(maps.orderMap, r)

\* C32: the start person gets depth 0; each other reached person gets the
\* depth of the person from which it was first reached, plus 1 for a child,
\* minus 1 for a parent and plus 0 for a spouse, whatever later paths lead to
\* it; every person not reachable from the start gets depth 0 and an order
\* value larger than every reachable person's, in mapping order; all order
\* values are pairwise distinct.
C32_DepthAndOrder ==
    IsPlacementCall =>
        LET rootId == action.payload.rootId
            reached == ReachedFrom(tree, {rootId})
            keys == StoredKeys(tree)
            depth(id) == MapGet(result.depthMap, id)
            order(id) == MapGet(result.orderMap, id)
        IN  /\ result.halted
            /\ \A id \in reached \cup Range(keys) :
                  MapHas(result.depthMap, id) /\ MapHas(result.orderMap, id)
            /\ depth(rootId) = 0
            /\ \A id \in reached \ {rootId} :
                  LET from == FirstNaming(tree, result, reached, id)
                  IN  /\ order(from) < order(id)
                      /\ depth(id) = depth(from) + DeltaTo(Stored(tree, from), id)
            /\ \A i \in 1..Len(keys) :
                  keys[i] \notin reached =>
                      /\ depth(keys[i]) = 0
                      /\ \A id \in reached : order(id) < order(keys[i])
                      /\ \A j \in 1..(i - 1) :
                            keys[j] \notin reached => order(keys[j]) < order(keys[i])
            /\ \A i, j \in 1..Len(result.orderMap) :
                  i # j => result.orderMap[i].value # result.orderMap[j].value

\* a person is reached from two persons that would give it different depths,
\* and has the depth the first one gave it
C32_Witness ==
    /\ IsPlacementCall
    /\ LET reached == ReachedFrom(tree, {action.payload.rootId})
       IN  /\ \E id \in reached \ {action.payload.rootId}, q \in reached, r \in reached :
                 /\ IsStored(tree, q) /\ IsStored(tree, r)
                 /\ id \in NamedBy(Stored(tree, q)) \cap NamedBy(Stored(tree, r))
                 /\ MapGet(result.depthMap, q) + DeltaTo(Stored(tree, q), id)
                       # MapGet(result.depthMap, r) + DeltaTo(Stored(tree, r), id)
                 /\ MapGet(result.depthMap, id)
                       = MapGet(result.depthMap, q) + DeltaTo(Stored(tree, q), id)

-----------------------------------------------------------------------------
(* The layout of a family of four: a parent, two children, an in-law        *)

\* a has the children b and c; b is married to d, who is reached after c
RowPerson(id) ==
    CASE id = "a" -> Person("a", Null, Null, <<>>, <<>>, <<"b", "c">>)
      [] id = "b" -> Person("b", Null, Null, <<"a">>, <<Partnership("d", "u1", Null)>>, <<>>)
      [] id = "c" -> Person("c", Null, Null, <<"a">>, <<>>, <<>>)
      [] id = "d" -> Person("d", Null, Null, <<>>, <<Partnership("b", "u1", Null)>>, <<>>)

RowOrders ==
    { <<"a", "b", "c", "d">>, <<"d", "c", "b", "a">>, <<"b", "a", "d", "c">>,
      <<"c", "d", "a", "b">>, <<"a", "c", "d">>, <<"b", "c", "d">> }

RowGraphs ==
    { [rootPersonId |-> r,
       people |-> [i \in 1..Len(order) |-> StoredAs(order[i], RowPerson(order[i]))]] :
        r \in {NoId, "a", "c", "d"}, order \in RowOrders }

SetRowTree ==
    /\ action = NoAction
    /\ \E g \in LayoutGraphs \cup RowGraphs : Dispatch([type |-> "SET_TREE", payload |-> g])

\* the layout of a loaded graph, the families of four among the graphs
NextRows ==
    \/ SetRowTree
    \/ RenderTree
    \/ ExportSvg

SpecRows == Init /\ [][NextRows]_vars

-----------------------------------------------------------------------------
(* C33 *)

\* A and B hold one Partnership each, these reference each other, and nobody
\* else lists A or B as spouse
IsCoupleApart(state, A, B) ==
    /\ A # B
    /\ IsPerson(state, A)
    /\ IsPerson(state, B)
    /\ Len(Stored(state, A).spouses) = 1
    /\ Len(Stored(state, B).spouses) = 1
    /\ Stored(state, A).spouses[1].spouseId = B
    /\ Stored(state, B).spouses[1].spouseId = A
    /\ \A i \in 1..Len(state.people) :
          state.people[i].id \notin {A, B} =>
              \A n \in 1..Len(state.people[i].spouses) :
                  state.people[i].spouses[n].spouseId \notin {A, B}

\* the depth computePlacementMaps assigns to the id in the layout of the graph
DepthOf(state, id) == MapGet(computePlacementMaps(state, LayoutRoot(state)).depthMap, id)

\* the nodes at the places i and i + 1 are those of A and B, in one row
AreNeighbours(layout, A, B) ==
    \E i \in 1..(Len(layout.personNodes) - 1) :
        /\ {KeyOf(layout.personNodes[i].person), KeyOf(layout.personNodes[i + 1].person)} = {A, B}
        /\ layout.personNodes[i].y = layout.personNodes[i + 1].y
        /\ layout.personNodes[i + 1].x
              = layout.personNodes[i].x + layout.personNodes[i].width + HORIZONTAL_GAP

\* C33: if persons A and B hold exactly one Partnership each, these reference
\* each other, nobody else lists A or B as spouse, and A and B are assigned
\* the same depth, then A and B occupy consecutive positions in their row.
C33_CoupleAdjacent ==
    IsLayoutCall =>
        \A A \in Range(StoredKeys(tree)), B \in Range(StoredKeys(tree)) :
            (IsCoupleApart(tree, A, B) /\ DepthOf(tree, A) = DepthOf(tree, B)) =>
                AreNeighbours(result, A, B)

\* a couple whose partners are not next to each other in the order of the
\* traversal (somebody of their row was reached between them) is drawn side by
\* side
C33_Witness ==
    /\ IsLayoutCall
    /\ \E A \in Range(StoredKeys(tree)), B \in Range(StoredKeys(tree)),
          between \in Range(StoredKeys(tree)) :
          LET maps == computePlacementMaps(tree, LayoutRoot(tree))
          IN  /\ IsCoupleApart(tree, A, B)
              /\ DepthOf(tree, A) = DepthOf(tree, B)
              /\ DepthOf(tree, between) = DepthOf(tree, A)
              /\ MapGet(maps.orderMap, A) < MapGet(maps.orderMap, between)
              /\ MapGet(maps.orderMap, between) < MapGet(maps.orderMap, B)
              /\ AreNeighbours(result, A, B)

-----------------------------------------------------------------------------
(* C34 *)

\* the rectangles of two nodes have a point in common
Overlap(m, n) ==
    /\ m.x < n.x + n.width
    /\ n.x < m.x + m.width
    /\ m.y < n.y + n.height
    /\ n.y < m.y + m.height

\* C34: in every layout no two person-node rectangles overlap: nodes of the
\* same row are separated horizontally by the fixed gap, and every node of a
\* row with larger depth lies strictly below every node of a row with smaller
\* depth, by at least the vertical gap under the tallest node of that row.
C34_NoOverlap ==
    IsLayoutCall =>
        \A i, j \in 1..Len(result.personNodes) :
            LET m == result.personNodes[i]
                n == result.personNodes[j]
                depthM == DepthOf(tree, KeyOf(m.person))
                depthN == DepthOf(tree, KeyOf(n.person))
            IN  i < j =>
                    /\ ~Overlap(m, n)
                    /\ depthM <= depthN
                    /\ depthM = depthN =>
                          /\ n.y = m.y
                          /\ n.x >= m.x + m.width + HORIZONTAL_GAP
                          /\ j = i + 1 => n.x = m.x + m.width + HORIZONTAL_GAP
                    /\ depthM < depthN => n.y >= m.y + m.height + VERTICAL_GAP

\* a row with two nodes of different heights, and above it another row
C34_Witness ==
    /\ IsLayoutCall
    /\ \E i, j, k \in 1..Len(result.personNodes) :
          /\ i < j
          /\ result.personNodes[i].y = result.personNodes[j].y
          /\ result.personNodes[i].height # result.personNodes[j].height
          /\ result.personNodes[k].y < result.personNodes[i].y
          /\ result.personNodes[i].y
                >= result.personNodes[k].y + result.personNodes[k].height + VERTICAL_GAP

-----------------------------------------------------------------------------
(* C35 *)

\* the rectangle at (x, y) of the given size lies inside the canvas of the
\* layout, the padding away from every side
IsInsideCanvas(layout, x, y, width, height) ==
    /\ x >= CANVAS_PADDING
    /\ y >= CANVAS_PADDING
    /\ x + width <= layout.width - CANVAS_PADDING
    /\ y + height <= layout.height - CANVAS_PADDING

\* C35: for every non-empty graph, every person node and every union marker
\* lies inside the canvas with the padding margin on every side: x and y are
\* at least the padding, x + width is at most layout.width minus the padding,
\* and y + height is at most layout.height minus the padding.
C35_InsideCanvas ==
    (IsLayoutCall /\ Len(tree.people) > 0) =>
        /\ \A i \in 1..Len(result.personNodes) :
              LET node == result.personNodes[i]
              IN  IsInsideCanvas(result, node.x, node.y, node.width, node.height)
        /\ \A i \in 1..Len(result.unionNodes) :
              LET node == result.unionNodes[i]
              IN  IsInsideCanvas(result, node.x, node.y, UNION_NODE_SIZE, UNION_NODE_SIZE)

\* a layout with a union marker between two rows, and a person node that ends
\* exactly the padding above the lower side of the canvas
C35_Witness ==
    /\ IsLayoutCall
    /\ \E i \in 1..Len(result.unionNodes), j, k \in 1..Len(result.personNodes) :
          /\ result.personNodes[j].y < result.unionNodes[i].y
          /\ result.unionNodes[i].y < result.personNodes[k].y
          /\ result.personNodes[k].y + result.personNodes[k].height
                = result.height - CANVAS_PADDING
          /\ IsInsideCanvas(result, result.unionNodes[i].x, result.unionNodes[i].y,
                            UNION_NODE_SIZE, UNION_NODE_SIZE)

-----------------------------------------------------------------------------
(* The add-child flow of the person form.                                  *)

\* ids that crypto.randomUUID may return: ids no graph names
NewIds == {"d", "e"}

\* the forEach over the partner ids other than the parent
RECURSIVE linkPartners(_, _, _, _)
linkPartners(state, partnerIds, parentId, id) ==
    IF partnerIds = <<>> THEN state
    ELSE LET partnerId == Head(partnerIds)
             linkedState ==
                 IF partnerId = parentId THEN state
                 ELSE treeReducer(state,
                          [type |-> "LINK_PARENT_CHILD",
                           payload |-> [parentId |-> partnerId, childId |-> id]])
         IN  linkPartners(linkedState, Tail(partnerIds), parentId, id)

\* only the clicked parent is linked
addChild_ParentOnly(state, parentId, id) ==
    IF parentId \notin Keys(state.people) THEN state
    ELSE LET parent == Lookup(state.people, parentId)
             partnerIds == resolveDefaultPartnerIds(state, parentId)
             child == Person(id, Null, Null,
                             IF Len(partnerIds) > 0 THEN partnerIds ELSE <<parent.id>>,
                             <<>>, <<>>)
             upserted == treeReducer(state, [type |-> "UPSERT_PERSON", payload |-> child])
         IN  treeReducer(upserted,
                 [type |-> "LINK_PARENT_CHILD",
                  payload |-> [parentId |-> parent.id, childId |-> id]])

\* case "ADD_CHILD" of handleModalSubmit: the dispatches in their order
addChild(state, parentId, id) ==
    IF parentId \notin Keys(state.people) THEN state
    ELSE LET parent == Lookup(state.people, parentId)
             partnerIds == resolveDefaultPartnerIds(state, parentId)
             child == Person(id, Null, Null,
                             IF Len(partnerIds) > 0 THEN partnerIds ELSE <<parent.id>>,
                             <<>>, <<>>)
             upserted == treeReducer(state, [type |-> "UPSERT_PERSON", payload |-> child])
             linkedState == treeReducer(upserted,
                                [type |-> "LINK_PARENT_CHILD",
                                 payload |-> [parentId |-> parent.id, childId |-> id]])
         IN  linkPartners(linkedState, partnerIds, parent.id, id)

\* the user submits the form opened from a person of the graph
AddChild(limit) ==
    /\ steps < limit
    /\ action # NoAction
    /\ \E parentId \in PersonIds, id \in NewIds \ Keys(tree.people) :
          /\ tree' = addChild(tree, parentId, id)
          /\ prev' = tree
          /\ action' = [type |-> "ADD_CHILD",
                        payload |-> [parentId |-> parentId, childId |-> id]]
          /\ steps' = steps + 1
          /\ UNCHANGED <<dangling, result, unionLog, hook, app>>

NextAddChild ==
    \/ SetQueryTree
    \/ AddChild(MaxStoreSteps)

SpecAddChild == Init /\ [][NextAddChild]_vars

-----------------------------------------------------------------------------
(* C36 *)

IsAddChild == action.type = "ADD_CHILD"

\* how many entries of ids are id
Occurrences(ids, id) == Cardinality({i \in 1..Len(ids) : ids[i] = id})

\* C36: after the add-child flow for a parent of the graph, the parents of
\* the child are exactly the ids that resolveDefaultPartnerIds returned for
\* the parent in the graph before, each of these persons lists the child
\* exactly once among its children, and every person of the graph before
\* that is not one of them has the record it had.
C36_AddChildLinksPartners ==
    (IsAddChild /\ action.payload.parentId \in Keys(prev.people)) =>
        LET id == action.payload.childId
            partnerIds == resolveDefaultPartnerIds(prev, action.payload.parentId)
            partners == {partnerIds[i] : i \in 1..Len(partnerIds)}
        IN  /\ id \in Keys(tree.people)
            /\ LET child == Lookup(tree.people, id)
               IN  /\ {child.parents[i] : i \in 1..Len(child.parents)} = partners
                   /\ \A partnerId \in partners : Occurrences(child.parents, partnerId) = 1
            /\ \A partnerId \in partners :
                  /\ partnerId \in Keys(tree.people)
                  /\ Occurrences(Lookup(tree.people, partnerId).children, id) = 1
            /\ Keys(tree.people) = Keys(prev.people) \cup {id}
            /\ \A otherId \in Keys(prev.people) \ partners :
                  Lookup(tree.people, otherId) = Lookup(prev.people, otherId)

\* the parent has one Partnership with another person of the graph: the flow
\* dispatched LINK_PARENT_CHILD for both, and a third person stayed as it was
C36_Witness ==
    /\ IsAddChild
    /\ action.payload.parentId \in Keys(prev.people)
    /\ LET partnerIds == resolveDefaultPartnerIds(prev, action.payload.parentId)
       IN  /\ Len(partnerIds) = 2
           /\ partnerIds[1] # partnerIds[2]
           /\ Len(Lookup(tree.people, action.payload.childId).parents) = 2
           /\ Len(prev.people) = 3

-----------------------------------------------------------------------------
(* useDebouncedCallback: the debounced save of the collection.             *)

\* useDebouncedCallback(persistCollection, 500), in ticks of the clock
SaveDelay == 2

\* what the effect passes: the collection to save
SaveArgs == {"x", "y"}

reducerVars == <<tree, prev, action, steps, dangling, result, unionLog>>

\* the pending timer is kept
clearTimeout_Keep(pending, handle) == pending

\* window.clearTimeout: the timer of the handle, when it is pending, is
\* dropped; the handle of a timer that has run names none
clearTimeout(pending, handle) == {t \in pending : t.id # handle}

\* the function that useCallback returns is called
CallDebounced ==
    /\ hook.mounted
    /\ Len(hook.calls) < MaxCalls
    /\ hook.now + SaveDelay <= MaxTime
    /\ \E args \in SaveArgs :
          LET handle == Len(hook.calls) + 1
              cleared == IF hook.timeoutRef # NoTimer
                         THEN clearTimeout(hook.timers, hook.timeoutRef)
                         ELSE hook.timers
          IN  hook' = [hook EXCEPT
                         !.timers = cleared \cup {[id |-> handle, args |-> args,
                                                   due |-> hook.now + SaveDelay]},
                         !.timeoutRef = handle,
                         !.calls = Append(@, [args |-> args, at |-> hook.now])]
    /\ UNCHANGED <<reducerVars, app>>

\* the window runs a timer that is due: callback(...args)
FireTimer ==
    /\ \E t \in hook.timers :
          /\ t.due <= hook.now
          /\ hook' = [hook EXCEPT
                         !.timers = @ \ {t},
                         !.ran = Append(@, [id |-> t.id, args |-> t.args,
                                            at |-> hook.now,
                                            after |-> Len(hook.calls),
                                            mounted |-> hook.mounted])]
    /\ UNCHANGED <<reducerVars, app>>

\* the cleanup of the effect
Unmount ==
    /\ hook.mounted
    /\ hook' = [hook EXCEPT
                   !.mounted = FALSE,
                   !.timers = IF hook.timeoutRef # NoTimer
                              THEN clearTimeout(hook.timers, hook.timeoutRef)
                              ELSE hook.timers]
    /\ UNCHANGED <<reducerVars, app>>

Tick ==
    /\ hook.now < MaxTime
    /\ hook' = [hook EXCEPT !.now = @ + 1]
    /\ UNCHANGED <<reducerVars, app>>

NextDebounce ==
    \/ CallDebounced
    \/ FireTimer
    \/ Unmount
    \/ Tick

\* time passes, and the window runs a timer that stays due
SpecDebounce ==
    Init /\ [][NextDebounce]_vars /\ WF_vars(Tick) /\ WF_vars(FireTimer)

-----------------------------------------------------------------------------
(* C37 *)

\* the call of this number has run
HasRun(i) == \E r \in 1..Len(hook.ran) : hook.ran[r].id = i

\* at most one timer is pending; what runs is the last call made, with its
\* arguments, once, not before the delay has passed, and while mounted; a
\* call that another call follows within the delay does not run; after the
\* unmount nothing is pending
IsDebounced ==
    LET calls == hook.calls
        ran == hook.ran
    IN  /\ Cardinality(hook.timers) <= 1
        /\ \A r \in 1..Len(ran) :
              /\ ran[r].id = ran[r].after
              /\ ran[r].args = calls[ran[r].after].args
              /\ ran[r].at >= calls[ran[r].id].at + SaveDelay
              /\ ran[r].mounted
              /\ \A q \in 1..Len(ran) : ran[q].id = ran[r].id => q = r
        /\ \A i \in 1..(Len(calls) - 1) :
              calls[i + 1].at - calls[i].at < SaveDelay => ~HasRun(i)
        /\ ~hook.mounted => hook.timers = {}

\* C37: at most one timer is pending at any time and a new call cancels the
\* pending one, so that of a burst of calls less than the delay apart only
\* the last runs, once, with its arguments, and it does run unless a later
\* call or the unmount cancels it; what is pending at the unmount never runs.
C37_DebouncedSave ==
    /\ []IsDebounced
    /\ \A i \in 1..MaxCalls :
          (Len(hook.calls) = i)
              ~> (HasRun(i) \/ Len(hook.calls) > i \/ ~hook.mounted)

\* two calls less than the delay apart with different arguments, and the
\* callback has run once, with the arguments of the second
C37_Witness ==
    /\ Len(hook.calls) = 2
    /\ hook.calls[2].at - hook.calls[1].at < SaveDelay
    /\ hook.calls[1].args # hook.calls[2].args
    /\ Len(hook.ran) = 1
    /\ hook.ran[1].args = hook.calls[2].args

-----------------------------------------------------------------------------
(* The stored trees of App and the effect that syncs the graph into them.  *)
(* The updates that one handler makes are committed by one render, so a    *)
(* handler is one step.  The sync effect of a commit holds the graph and   *)
(* the active id of that commit; the updater it hands to setTrees is       *)
(* queued and applied to the trees of a later moment, and handlers may run *)
(* in between.  A stored tree carries, next to its id and its graph, the   *)
(* id of the stored tree that the graph was taken from.                    *)

\* the graph of a tree with one person
GraphOf(id) ==
    [rootPersonId |-> id, people |-> <<Person(id, Null, Null, <<>>, <<>>, <<>>)>>]

cloneTreeData(source) ==
    [rootPersonId |-> source.rootPersonId,
     people |-> [i \in 1..Len(source.people) |->
                   [source.people[i] EXCEPT !.parents = [k \in 1..Len(@) |-> @[k]],
                                            !.children = [k \in 1..Len(@) |-> @[k]],
                                            !.spouses = [k \in 1..Len(@) |-> @[k]]]]]

createStoredTree(id, treeData) ==
    [id |-> id, tree |-> cloneTreeData(treeData), from |-> id]

\* crypto.randomUUID at a step: an id that no earlier step has drawn
TreeIdAt(step) == "n" \o ToString(step)

\* what IndexedDB may hold: no tree, one, two; the active id may be absent
\* or name no tree
StoredCollections ==
    { [trees |-> t, activeTreeId |-> i] :
        t \in { <<>>,
                <<createStoredTree("t1", GraphOf("a"))>>,
                <<createStoredTree("t1", GraphOf("a")),
                  createStoredTree("t2", GraphOf("b"))>> },
        i \in {NoId, "t1", "t2", "t9"} }

TreeIds(entries) == {entries[i].id : i \in 1..Len(entries)}

\* prev.findIndex(entry => entry.id === id), 0 for -1
findIndex(entries, id) ==
    IF id \in TreeIds(entries)
    THEN CHOOSE i \in 1..Len(entries) :
            /\ entries[i].id = id
            /\ \A k \in 1..(i - 1) : entries[k].id # id
    ELSE 0

\* the id of the commit that applies the updater is used
targetOf_Latest(captured, latestId) == latestId

\* the id that the updater of the sync effect looks for: the currentTreeId of
\* the render whose effect made the updater
targetOf(captured, latestId) == captured.currentTreeId

\* the updater of the sync effect
syncUpdater(entries, captured, latestId) ==
    LET index == findIndex(entries, targetOf(captured, latestId))
    IN  IF index = 0 THEN entries
        ELSE [entries EXCEPT ![index] = [@ EXCEPT !.tree = captured.tree,
                                                  !.from = captured.origin]]

\* the sync effect of a commit: it returns before setTrees unless the
\* collection has loaded and a tree is active
scheduleSync(queue, loaded, id, graph, from) ==
    IF loaded /\ id # NoId
    THEN Append(queue, [tree |-> graph, currentTreeId |-> id, origin |-> from])
    ELSE queue

\* a commit of App: the reducer state, the stored trees, the active id
Commit(name, graph, entries, id, loaded, from) ==
    /\ tree' = graph
    /\ prev' = tree
    /\ action' = [type |-> name]
    /\ steps' = steps + 1
    /\ app' = [trees |-> entries, currentTreeId |-> id,
               hasLoadedFromStorage |-> loaded, origin |-> from,
               updaters |-> scheduleSync(app.updaters, loaded, id, graph, from)]
    /\ UNCHANGED <<dangling, result, unionLog, hook>>

\* loadTreeCollection resolves: then and finally
LoadCollection ==
    /\ ~app.hasLoadedFromStorage
    /\ \E collection \in StoredCollections :
          LET created == createStoredTree(TreeIdAt(steps), EMPTY_TREE)
              initialTrees == IF collection.trees = <<>> THEN <<created>>
                              ELSE collection.trees
              activeTreeId == IF collection.trees = <<>> THEN created.id
                              ELSE collection.activeTreeId
              wanted == IF activeTreeId # NoId THEN activeTreeId
                        ELSE initialTrees[1].id
              index == findIndex(initialTrees, wanted)
          IN  Commit("loadTreeCollection",
                     IF index = 0 THEN cloneTreeData(EMPTY_TREE)
                     ELSE cloneTreeData(initialTrees[index].tree),
                     initialTrees, wanted, TRUE,
                     IF index = 0 THEN NoId ELSE initialTrees[index].id)

\* loadTreeCollection rejects: finally alone
LoadFailed ==
    /\ ~app.hasLoadedFromStorage
    /\ Commit("loadTreeCollection", tree, app.trees, app.currentTreeId, TRUE,
              app.origin)

\* the user edits the graph: a dispatch to the reducer
EditTree(limit) ==
    /\ steps < limit
    /\ \E id \in PersonIds :
          Commit("UPSERT_PERSON",
                 treeReducer(tree, [type |-> "UPSERT_PERSON",
                                    payload |-> Person(id, Null, Null, <<>>, <<>>, <<>>)]),
                 app.trees, app.currentTreeId, app.hasLoadedFromStorage, app.origin)

handleSelectTree(limit) ==
    /\ steps < limit
    /\ \E treeId \in TreeIds(app.trees) :
          LET entry == app.trees[findIndex(app.trees, treeId)]
          IN  Commit("handleSelectTree", cloneTreeData(entry.tree), app.trees, treeId,
                     app.hasLoadedFromStorage, entry.id)

handleCreateTree(limit) ==
    /\ steps < limit
    /\ LET stored == createStoredTree(TreeIdAt(steps), EMPTY_TREE)
       IN  Commit("handleCreateTree", cloneTreeData(stored.tree),
                  Append(app.trees, stored), stored.id, app.hasLoadedFromStorage,
                  stored.id)

handleToolbarLoadFromFile(limit) ==
    /\ steps < limit
    /\ LET stored == createStoredTree(TreeIdAt(steps), GraphOf("c"))
       IN  Commit("handleToolbarLoadFromFile", cloneTreeData(stored.tree),
                  Append(app.trees, stored), stored.id, app.hasLoadedFromStorage,
                  stored.id)

handleDeleteTree(limit) ==
    /\ steps < limit
    /\ \E treeId \in TreeIds(app.trees) :
          LET next == SelectSeq(app.trees, LAMBDA item : item.id # treeId)
              created == createStoredTree(TreeIdAt(steps), EMPTY_TREE)
          IN  IF treeId # app.currentTreeId
              THEN Commit("handleDeleteTree", tree, next, app.currentTreeId,
                          app.hasLoadedFromStorage, app.origin)
              ELSE IF Len(next) > 0
              THEN Commit("handleDeleteTree", cloneTreeData(next[1].tree), next,
                          next[1].id, app.hasLoadedFromStorage, next[1].id)
              ELSE Commit("handleDeleteTree", cloneTreeData(created.tree),
                          <<created>>, created.id, app.hasLoadedFromStorage,
                          created.id)

\* the effect that keeps an active tree: it makes one when there is none and
\* activates the first when the active id names none
KeepActiveTree ==
    /\ app.hasLoadedFromStorage
    /\ \/ app.trees = <<>>
       \/ app.currentTreeId # NoId /\ app.currentTreeId \notin TreeIds(app.trees)
    /\ LET created == createStoredTree(TreeIdAt(steps), EMPTY_TREE)
       IN  IF app.trees = <<>>
           THEN Commit("keepActiveTree", cloneTreeData(created.tree), <<created>>,
                       created.id, app.hasLoadedFromStorage, created.id)
           ELSE Commit("keepActiveTree", cloneTreeData(app.trees[1].tree), app.trees,
                       app.trees[1].id, app.hasLoadedFromStorage, app.trees[1].id)

\* React applies the updater that the sync effect queued
ApplySync ==
    /\ app.updaters # <<>>
    /\ app' = [app EXCEPT
                  !.trees = syncUpdater(@, Head(app.updaters), app.currentTreeId),
                  !.updaters = Tail(@)]
    /\ action' = [type |-> "setTrees"]
    /\ UNCHANGED <<tree, prev, steps, dangling, result, unionLog, hook>>

NextTrees ==
    \/ LoadCollection
    \/ LoadFailed
    \/ EditTree(MaxTreeSteps)
    \/ handleSelectTree(MaxTreeSteps)
    \/ handleCreateTree(MaxTreeSteps)
    \/ handleToolbarLoadFromFile(MaxTreeSteps)
    \/ handleDeleteTree(MaxTreeSteps)
    \/ KeepActiveTree
    \/ ApplySync

SpecTrees == Init /\ [][NextTrees]_vars

-----------------------------------------------------------------------------
(* C38 *)

\* C38: whatever the order in which the handlers that switch, create, import
\* or delete a tree and the updaters of the sync effect run, every stored
\* tree holds a graph that was taken from its own content: the graph of the
\* tree that was active before is never stored under the id that is active
\* now.
C38_SyncKeepsOwnGraph ==
    \A i \in 1..Len(app.trees) : app.trees[i].from = app.trees[i].id

\* the user edited a tree and switched to another before the updater of the
\* edit was applied; it was then applied, to the tree that was edited, and the
\* tree that is active now kept its graph
C38_Witness ==
    /\ action.type = "setTrees"
    /\ Len(app.trees) = 2
    /\ app.currentTreeId = app.trees[2].id
    /\ app.trees[1].tree # GraphOf("a")
    /\ app.trees[1].id = "t1"
    /\ app.trees[2].tree = GraphOf("b")
    /\ tree = GraphOf("b")
    /\ steps = 3
    /\ Len(app.updaters) = 1

====
